---- MODULE Spec2Model ----
(***************************************************************************)
(* Elliott 903 / 920B emulator (src/src/emu900.c): the session as a state  *)
(* machine.  One action per function code of emulate()'s switch, one per   *)
(* function-15 device, and the steps of tidyExit().                        *)
(*                                                                         *)
(* Representation notes.                                                   *)
(*  - store[] has STORE_SIZE cells.  It is kept as a function whose domain *)
(*    is the set of cells holding a non-zero value; every other cell of    *)
(*    0..STORE_SIZE-1 holds 0 (Rd, Wr below).  Addresses and words keep    *)
(*    their full width.                                                    *)
(*  - TLC integers are 32 bits wide, so the 64-bit intermediates of        *)
(*    multiply, divide and shift are computed in two halves (Mul, Div,     *)
(*    Shift below) and give the value the int64_t expression gives.        *)
(*  - A file of integers (the store image) is the sequence of its tokens,  *)
(*    kept like the store: its length and its non-zero tokens.             *)
(*  - Diagnostic text (fprintf to diag/stderr) is not part of the state.   *)
(*  - The host is assumed to open and write every file the program asks   *)
(*    for (the fopen failure branches are not followed), and no signal is  *)
(*    delivered except in SpecCrash, where the process may be stopped      *)
(*    during writeStore().                                                 *)
(***************************************************************************)
EXTENDS Integers, Sequences, FiniteSets, TLC

(***************************************************************************)
(* Program constants                                                       *)
(***************************************************************************)
EXIT_DYNSTOP == 0
EXIT_FAILURE == 1
EXIT_RDRSTOP == 2
EXIT_TTYSTOP == 4
EXIT_LIMITSTOP == 8
EXIT_PUNSTOP == 16

BIT19 == 262144
MASK18 == 262143
BIT18 == 131072
MASK16 == 65535
ADDR_MASK == 8191
MOD_MASK == 57344
FN_MASK == 15
FN_SHIFT == 13

SCRLEVEL1 == 0
SCRLEVEL4 == 6
BREGLEVEL1 == 1
BREGLEVEL4 == 7

STORE_SIZE == 16384
REEL == 120000

PAPER_WIDTH == 3600
PAPER_HEIGHT == 3600
PEN_SIZE == 4

(***************************************************************************)
(* Two's-complement bit operations on C ints                               *)
(***************************************************************************)
RECURSIVE And(_, _)
\* x & y
And(x, y) ==
    IF x = 0 \/ y = 0 THEN 0
    ELSE IF x = -1 THEN y
    ELSE IF y = -1 THEN x
    ELSE (x % 2) * (y % 2) + 2 * And(x \div 2, y \div 2)

RECURSIVE Or(_, _)
\* x | y
Or(x, y) ==
    IF x = 0 THEN y
    ELSE IF y = 0 THEN x
    ELSE IF x = -1 \/ y = -1 THEN -1
    ELSE (IF x % 2 = 1 \/ y % 2 = 1 THEN 1 ELSE 0) + 2 * Or(x \div 2, y \div 2)

\* x >> n on a signed int (arithmetic)
Shr(x, n) == x \div (2 ^ n)

\* x & mask for a mask 2^k - 1 of low bits (MASK18, MASK16, ADDR_MASK, ...)
Low(x, mask) == x % (mask + 1)

\* a module mask that keeps no bit
ModBitsNone(x) == 0

\* x & MOD_MASK: bits 13 to 15
ModBits(x) == Low(Shr(x, 13), Shr(MOD_MASK, 13)) * (2 ^ 13)

\* a word taken as unsigned
SignExtendNone(v) == v

\* (v >= BIT18) ? v - BIT19 : v
SignExtend(v) == IF v >= BIT18 THEN v - BIT19 ELSE v

(***************************************************************************)
(* The store                                                               *)
(***************************************************************************)
\* store[i] for 0 <= i < STORE_SIZE
Rd(st, i) == IF i \in DOMAIN st THEN st[i] ELSE 0

\* store[i] = v for 0 <= i < STORE_SIZE
Wr(st, i, v) ==
    IF v = 0
    THEN [x \in (DOMAIN st) \ {i} |-> st[x]]
    ELSE [x \in (DOMAIN st) \cup {i} |-> IF x = i THEN v ELSE st[x]]

\* clearStore()
clearStore == [x \in {} |-> 0]

\* makeIns(m, f, a)
makeIns(mm, ff, aa) == Or(Or(mm * (2 ^ 17), ff * (2 ^ 13)), aa)

\* loadII(): the twelve initial orders
IIWords ==
    [x \in 8180..8191 |->
        CASE x = 8180 -> Low(-3, MASK18)
          [] x = 8181 -> makeIns(0, 0, 8180)
          [] x = 8182 -> makeIns(0, 4, 8189)
          [] x = 8183 -> makeIns(0, 15, 2048)
          [] x = 8184 -> makeIns(0, 9, 8186)
          [] x = 8185 -> makeIns(0, 8, 8183)
          [] x = 8186 -> makeIns(0, 15, 2048)
          [] x = 8187 -> makeIns(1, 5, 8180)
          [] x = 8188 -> makeIns(0, 10, 1)
          [] x = 8189 -> makeIns(0, 4, 1)
          [] x = 8190 -> makeIns(0, 9, 8182)
          [] x = 8191 -> makeIns(0, 8, 8177)]

\* the initial orders without the count in cell 8180
loadIIShort(st) ==
    [x \in (DOMAIN st) \cup (8181..8191) |->
        IF x \in 8181..8191 THEN IIWords[x] ELSE st[x]]

loadII(st) ==
    [x \in (DOMAIN st) \cup (8180..8191) |->
        IF x \in 8180..8191 THEN IIWords[x] ELSE st[x]]

(***************************************************************************)
(* 64-bit intermediates in two halves.  A pair <<H, L>> stands for the     *)
(* int64_t value H * 2^18 + L with 0 <= L < 2^18.  The operators are exact *)
(* for operands of magnitude up to 2^19, which covers every word the       *)
(* model's inputs and instructions produce.                                *)
(***************************************************************************)
\* x >> n for n up to 36, x a 32-bit value
ShrC(x, n) == IF n >= 31 THEN (IF x < 0 THEN -1 ELSE 0) ELSE x \div (2 ^ n)

\* the register pair joined without the sign extension of A
AQLNoSign(ar, qr) == <<ar, qr % BIT19>>

\* (al << 18) | ql
AQL(ar, qr) == <<Or(SignExtend(ar), Shr(qr, 18)), qr % BIT19>>

\* a multiply that leaves bit 0 of Q clear whatever the sign of A
MulNoSign(ar, sm) ==
    LET al == SignExtend(ar)
        sl == SignExtend(sm)
        s0 == sl % 512
        sh == sl \div 512
        T1 == al * s0
        T2 == al * sh
        loSum == (T2 % 256) * 512 + (T1 % BIT18)
        lo == loSum % BIT18
        hi == (T2 \div 256) + (T1 \div BIT18) + (loSum \div BIT18)
    IN  <<hi % BIT19, lo * 2>>

\* case 12: <<aReg, qReg>> after multiplying aReg by the word sm
Mul(ar, sm) ==
    LET al == SignExtend(ar)
        sl == SignExtend(sm)
        \* prod = al * sl = hi * 2^17 + lo
        s0 == sl % 512
        sh == sl \div 512
        T1 == al * s0
        T2 == al * sh
        loSum == (T2 % 256) * 512 + (T1 % BIT18)
        lo == loSum % BIT18
        hi == (T2 \div 256) + (T1 \div BIT18) + (loSum \div BIT18)
        q0 == lo * 2                       \* (prod << 1) & MASK18
        q1 == IF al < 0 THEN q0 + 1 ELSE q0  \* qReg |= 1
    IN  <<hi % BIT19, q1>>                  \* (prod >> 17) & MASK18

RECURSIVE LongDiv(_, _, _, _, _)
\* the low quotient bits of (r * 2^k + the low k bits of l) / d, MSB first
LongDiv(r, l, d, k, acc) ==
    IF k = 0 THEN acc
    ELSE LET bit == (l \div (2 ^ (k - 1))) % 2
             r2 == 2 * r + bit
         IN  IF r2 >= d
             THEN LongDiv(r2 - d, l, d, k - 1, 2 * acc + 1)
             ELSE LongDiv(r2, l, d, k - 1, 2 * acc)

\* case 13: <<aReg, qReg>> after dividing aReg:qReg by the non-zero word sm
Div(ar, qr, sm) ==
    LET aql == AQL(ar, qr)
        ml == SignExtend(sm)
        neg == aql[1] < 0
        \* |aql| = H * 2^18 + L
        H == IF ~neg THEN aql[1]
             ELSE IF aql[2] = 0 THEN -aql[1] ELSE -aql[1] - 1
        L == IF ~neg \/ aql[2] = 0 THEN aql[2] ELSE BIT19 - aql[2]
        d == IF ml < 0 THEN -ml ELSE ml
        \* |aql| / d, modulo 2^19
        qm == ((H \div d) % 2) * BIT19 + LongDiv(H % d, L, d, 18, 0)
        \* aql / ml truncates towards zero
        sq == IF neg = (ml < 0) THEN qm ELSE (2 * BIT19 - qm) % (2 * BIT19)
        quot == sq \div 2                 \* ((aql / ml) >> 1) & MASK18
    IN  <<Or(quot, 1), And(quot, 262142)>>

\* case 14, places <= 2047: <<aReg, qReg>> after aql <<= places
ShiftLeft(ar, qr, places) ==
    LET aql == AQL(ar, qr)
        h == aql[1] % BIT19
        l == aql[2]
        p == IF places >= 36 THEN 36 ELSE places
    IN  IF p < 18
        THEN <<(h % (2 ^ (18 - p))) * (2 ^ p) + (l \div (2 ^ (18 - p))),
               (l % (2 ^ (18 - p))) * (2 ^ p)>>
        ELSE <<(l % (2 ^ (36 - p))) * (2 ^ (p - 18)), 0>>

\* a right shift of the pair taken as unsigned
ShiftRightUnsigned(ar, qr, places) ==
    LET H == ar
        l == qr % BIT19
        n == 8192 - places
        p == IF n >= 36 THEN 36 ELSE n
    IN  <<ShrC(H, p) % BIT19,
          IF p <= 18
          THEN (H % (2 ^ p)) * (2 ^ (18 - p)) + (l \div (2 ^ p))
          ELSE ShrC(H, p - 18) % BIT19>>

\* case 14, places >= 6144: <<aReg, qReg>> after aql >>= 8192 - places
ShiftRight(ar, qr, places) ==
    LET aql == AQL(ar, qr)
        H == aql[1]
        l == aql[2]
        n == 8192 - places
        p == IF n >= 36 THEN 36 ELSE n
    IN  <<ShrC(H, p) % BIT19,
          IF p <= 18
          THEN (H % (2 ^ p)) * (2 ^ (18 - p)) + (l \div (2 ^ p))
          ELSE ShrC(H, p - 18) % BIT19>>

(***************************************************************************)
(* State                                                                   *)
(***************************************************************************)
VARIABLES
    pc,             \* "start", "run", "tidy", "writing", "exited", "crashed"
    exitCode,       \* the process's exit code once pc = "exited", else -1
    reason,         \* tidyExit's argument while it runs
    wr,             \* writeStore's loop index i
    \* the command line (decodeArgs), -v, -m, -s and -t left at their defaults
    opKeys, diagLimit, abandon,
    abandonArg,     \* the -abandon argument as given, -1 when there is none
    \* the machine
    store, storeValid, aReg, qReg, bReg, scReg, lastSCR, level,
    iCount, fCount, instruction, f, a, m, emTime,
    \* peripherals
    ptrTape,        \* the bytes of the reader input file
    ptrFile,        \* -1: ptrFile == NULL, else the number of bytes read
    punFile,        \* [open |-> punFile != NULL, zeros |-> the number of zero
                    \*  bytes the file begins with, data |-> the bytes after]
    punchCount,
    ttyiTape,       \* the bytes of the teletype input file
    ttyiFile,       \* -1: ttyiFile == NULL, else the number of bytes read
    ttyCount,
    ttyOut,         \* the characters put on stdout
    lastttych,
    plotterPaper,   \* the set of black pixels <<x, y>> of the raster
    plotterPenX, plotterPenY, plotterPenDown,
    firstCall,      \* movePlotter's static: plotterPaper == NULL while TRUE
    \* files
    storeFile,      \* the store image file
    saveFile,       \* the residual tape file (.save)
    stopFile,       \* the stop file (.stop)
    plotFile,       \* the plotter PNG
    \* history
    image0,         \* the store image file as the session found it
    oob,            \* an access outside store[] has happened
    steps,          \* instructions decoded since the initial state
    \* the interrupt handler and the streams
    inHandler,      \* catchInt is running: SIGINT is blocked
    closes,         \* the fclose calls made on ptrFile, ttyiFile and punFile
    stale           \* a stream has been used after its fclose

envVars == <<opKeys, diagLimit, abandonArg, ptrTape, ttyiTape, image0>>
sigVars == <<inHandler, closes, stale>>
ctlVars == <<pc, exitCode, reason, wr>>
cpuVars == <<store, aReg, qReg, scReg, lastSCR, iCount, fCount, instruction,
             f, a, m, emTime, abandon, stopFile, ttyOut, lastttych>>
lvlVars == <<level, bReg>>
rdrVars == <<ptrFile>>
punVars == <<punFile, punchCount>>
ttyVars == <<ttyiFile, ttyCount>>
plotVars == <<plotterPaper, plotterPenX, plotterPenY, plotterPenDown, firstCall>>
fileVars == <<storeFile, saveFile, plotFile, storeValid>>
vars == <<envVars, sigVars, ctlVars, cpuVars, lvlVars, rdrVars, punVars,
          ttyVars, plotVars, fileVars, oob, steps>>

(***************************************************************************)
(* Files of integers                                                       *)
(***************************************************************************)
\* no file of that name
NoFile == [exists |-> FALSE, n |-> 0, tok |-> clearStore, bad |-> -1]

\* a file of n integer tokens, the non-zero ones given by tok; bad is the
\* index of a token that is no integer, or -1
IntFile(n, tok) == [exists |-> TRUE, n |-> n, tok |-> tok, bad |-> -1]

\* fprintf(f, "%7d", store[i]) writes cell i straight after the digits of
\* cell i - 1: "%7d" leaves no blank before a number of seven digits or more
\* and the newline is written after cells 10, 20, ... only
Glued(st, i) ==
    /\ i > 0
    /\ i = 1 \/ (i - 1) % 10 # 0
    /\ Rd(st, i) >= 1000000

\* the integer fscanf("%d") reads from the digits of x followed by those of
\* v, v of seven digits or more; exact while that number fits an int, as it
\* does for every image of Sessions
Cat(x, v) ==
    LET p == IF v < 10000000 THEN 10000000
             ELSE IF v < 100000000 THEN 100000000 ELSE 1000000000
    IN  IF x = 0 THEN v
        ELSE IF x > 0 THEN x * p + v ELSE -((-x) * p + v)

RECURSIVE Joined(_, _, _, _)
\* the integer read from a token whose digits so far make acc and which goes
\* on with cell i while cell i is glued
Joined(st, k, i, acc) ==
    IF i < k /\ Glued(st, i)
    THEN Joined(st, k, i + 1, Cat(acc, Rd(st, i)))
    ELSE acc

\* the first k cells of the store as writeStore's loop has written them, as
\* the integers fscanf finds in the file
Written(st, k) ==
    LET G == {j \in DOMAIN st : j < k /\ Glued(st, j)}
        S == {x \in (DOMAIN st) \cup {j - 1 : j \in G} : x < k /\ x \notin G}
        Ix(x) == x - Cardinality({j \in G : j < x})
    IN  IntFile(k - Cardinality(G),
                [t \in {Ix(x) : x \in S} |->
                    LET x == CHOOSE y \in S : Ix(y) = t
                    IN  Joined(st, k, x + 1, Rd(st, x))])

\* the number of integers fscanf reads before it stops
Scanned(file) == IF file.bad >= 0 THEN file.bad ELSE file.n

\* a load that fails on a format error only
readStoreFailsOnFormat(file) == file.exists /\ file.bad >= 0

\* readStore(): TRUE when it reaches exit(EXIT_FAILURE)
readStoreFails(file) ==
    /\ file.exists
    /\ \/ Scanned(file) > STORE_SIZE       \* exceeds store capacity
       \/ file.bad >= 0                    \* format error

\* readStore(): the store after a load that succeeds
readStore(st, file) ==
    IF file.exists
    THEN [x \in (DOMAIN st) \cup (DOMAIN file.tok) |->
             IF x \in DOMAIN file.tok THEN file.tok[x] ELSE st[x]]
    ELSE st

\* flushTTY(): <<stdout, lastttych>> afterwards
flushTTY(out, last) ==
    IF last # -1 /\ last # 10 THEN <<Append(out, 10), -1>> ELSE <<out, last>>

(***************************************************************************)
(* Fetch and decode                                                        *)
(***************************************************************************)
\* lastSCR = store[scReg]
LastSCR == Rd(store, scReg)

\* store[scReg]++
StoreInc == Wr(store, scReg, LastSCR + 1)

\* store[i] as it was before store[scReg]++
RdStale(i) == Rd(store, i)

\* store[i] once store[scReg]++ is done
RdInc(i) == IF i = scReg THEN LastSCR + 1 ELSE Rd(store, i)

\* the words a read outside store[] may find
OobWords == {0, makeIns(0, 8, 0)}

\* instruction = store[lastSCR]; checkAddress lets a negative lastSCR pass
Fetched == IF LastSCR >= 0 THEN {RdInc(LastSCR)} ELSE OobWords

\* a function field that keeps the bits above it
FnOfNoMask(ins) == Shr(ins, FN_SHIFT)

\* f = (instruction >> FN_SHIFT) & FN_MASK
FnOf(ins) == Low(Shr(ins, FN_SHIFT), FN_MASK)

\* an address that does not inherit the module of the instruction
AOfNoModule(ins) == Low(ins, ADDR_MASK)

\* a = (instruction & ADDR_MASK) | (lastSCR & MOD_MASK)
AOf(ins) == Or(Low(ins, ADDR_MASK), ModBits(LastSCR))

\* B modification: instruction >= BIT18
BMod(ins) == ins >= BIT18

\* m = (a + store[bReg]) & MASK16, or a & MASK16
MOf(ins) ==
    IF BMod(ins)
    THEN Low(AOf(ins) + RdInc(bReg), MASK16)
    ELSE Low(AOf(ins), MASK16)

\* emTime += d; the int64_t emTime is kept as <<h, l>> for h * 10^9 + l
\* microseconds, 0 <= l < 10^9
AddTime(t, d) ==
    <<t[1] + (t[2] + d) \div 1000000000, (t[2] + d) % 1000000000>>

\* emTime += 6 on B modification
BTime(ins) == IF BMod(ins) THEN 6 ELSE 0

\* the functions whose case calls checkAddress(m)
Checked(ins) ==
    \/ FnOf(ins) \in {0, 2, 3, 4, 6, 10, 12, 13}
    \/ FnOf(ins) = 5 /\ ~(level = 1 /\ MOf(ins) >= 8180 /\ MOf(ins) <= 8191)

\* the model follows a session for MaxInstr instructions
MaxInstr == 13

\* the loop is at its head and the model follows it
Running == pc = "run" /\ steps < MaxInstr

\* the loop reaches the switch with instruction ins and function code k
Exec(ins, k) ==
    /\ LastSCR < STORE_SIZE
    /\ FnOf(ins) = k
    /\ Checked(ins) => MOf(ins) < STORE_SIZE

\* the same values with the Q register cleared
PostClearsQ ==
    [store |-> StoreInc, aReg |-> aReg, qReg |-> 0, scReg |-> scReg,
     ttyOut |-> ttyOut, lastttych |-> lastttych, dt |-> 0,
     oob |-> (oob \/ LastSCR < 0)]

\* the values an instruction leaves, before the function is performed
Post == [store |-> StoreInc, aReg |-> aReg, qReg |-> qReg, scReg |-> scReg,
         ttyOut |-> ttyOut, lastttych |-> lastttych, dt |-> 0,
         oob |-> (oob \/ LastSCR < 0)]

\* a decode step that leaves the histogram alone
DecodeNoCount(ins) ==
    /\ iCount' = iCount + 1
    /\ lastSCR' = LastSCR
    /\ instruction' = ins
    /\ f' = FnOf(ins)
    /\ a' = AOf(ins)
    /\ m' = MOf(ins)
    /\ fCount' = fCount
    /\ steps' = steps + 1

\* ++iCount, lastSCR, instruction, f, a, m, fCount[f] += 1
Decode(ins) ==
    /\ iCount' = iCount + 1
    /\ lastSCR' = LastSCR
    /\ instruction' = ins
    /\ f' = FnOf(ins)
    /\ a' = AOf(ins)
    /\ m' = MOf(ins)
    /\ fCount' = [fCount EXCEPT ![FnOf(ins)] = @ + 1]
    /\ steps' = steps + 1

\* (abandon != -1) && (iCount >= abandon)
Limit(n, ab) == ab # -1 /\ n >= ab

\* a dynamic stop test that compares with the incremented address
DynamicStopNext(st, sc) == Rd(st, sc) = LastSCR + 1

\* store[scReg] == lastSCR
DynamicStop(st, sc) == Rd(st, sc) = LastSCR

\* the rest of the loop body after the switch: r holds what the function left
Finish(ins, r) ==
    LET n == iCount + 1
        ab == IF n = diagLimit THEN n + 1000 ELSE abandon
        limit == Limit(n, ab)
        dynstop == ~limit /\ DynamicStop(r.store, r.scReg)
        tty == IF limit \/ dynstop THEN flushTTY(r.ttyOut, r.lastttych)
               ELSE <<r.ttyOut, r.lastttych>>
    IN  /\ Decode(ins)
        /\ store' = r.store
        /\ aReg' = r.aReg
        /\ qReg' = r.qReg
        /\ scReg' = r.scReg
        /\ oob' = r.oob
        /\ emTime' = AddTime(emTime, BTime(ins) + r.dt)
        /\ abandon' = ab
        /\ ttyOut' = tty[1]
        /\ lastttych' = tty[2]
        /\ stopFile' = IF dynstop THEN [exists |-> TRUE, value |-> LastSCR]
                       ELSE stopFile
        /\ pc' = IF limit \/ dynstop THEN "tidy" ELSE "run"
        /\ reason' = IF limit THEN EXIT_LIMITSTOP
                     ELSE IF dynstop THEN EXIT_DYNSTOP ELSE reason
        /\ UNCHANGED <<exitCode, wr, envVars, sigVars, fileVars>>

\* a tidyExit inside the switch that reports a dynamic stop
AbortAsStop(ins, code, flush, out, last) ==
    LET tty == IF flush THEN flushTTY(out, last) ELSE <<out, last>>
    IN  /\ Decode(ins)
        /\ store' = StoreInc
        /\ emTime' = AddTime(emTime, BTime(ins))
        /\ ttyOut' = tty[1]
        /\ lastttych' = tty[2]
        /\ pc' = "tidy"
        /\ reason' = EXIT_DYNSTOP
        /\ oob' = (oob \/ LastSCR < 0)
        /\ UNCHANGED <<aReg, qReg, scReg, abandon, stopFile, exitCode, wr,
                       envVars, sigVars, fileVars>>

\* tidyExit(code) called inside the switch: the function is not completed
Abort(ins, code, flush, out, last) ==
    LET tty == IF flush THEN flushTTY(out, last) ELSE <<out, last>>
    IN  /\ Decode(ins)
        /\ store' = StoreInc
        /\ emTime' = AddTime(emTime, BTime(ins))
        /\ ttyOut' = tty[1]
        /\ lastttych' = tty[2]
        /\ pc' = "tidy"
        /\ reason' = code
        /\ oob' = (oob \/ LastSCR < 0)
        /\ UNCHANGED <<aReg, qReg, scReg, abandon, stopFile, exitCode, wr,
                       envVars, sigVars, fileVars>>

(***************************************************************************)
(* The fetch loop: checkAddress                                            *)
(***************************************************************************)
ioVars == <<lvlVars, rdrVars, punVars, ttyVars, plotVars>>

\* checkAddress(lastSCR) fails: the SCR holds STORE_SIZE or more
FetchFatal ==
    LET tty == flushTTY(ttyOut, lastttych)
    IN  /\ Running
        /\ LastSCR >= STORE_SIZE
        /\ iCount' = iCount + 1
        /\ lastSCR' = LastSCR
        /\ store' = StoreInc
        /\ ttyOut' = tty[1]
        /\ lastttych' = tty[2]
        /\ pc' = "tidy"
        /\ reason' = EXIT_FAILURE
        /\ UNCHANGED <<aReg, qReg, scReg, fCount, instruction, f, a, m, emTime,
                       abandon, stopFile, exitCode, wr, envVars, sigVars, fileVars,
                       ioVars, oob, steps>>

\* checkAddress(m) fails in a case that calls it
AddrFatal ==
    /\ Running
    /\ \E ins \in Fetched :
        /\ LastSCR < STORE_SIZE
        /\ Checked(ins)
        /\ MOf(ins) >= STORE_SIZE
        /\ Abort(ins, EXIT_FAILURE, TRUE, ttyOut, lastttych)
        /\ UNCHANGED ioVars

(***************************************************************************)
(* Functions 0 to 11                                                       *)
(***************************************************************************)
\* case 0: Load B
Fn0 ==
    /\ Running
    /\ \E ins \in Fetched :
        /\ Exec(ins, 0)
        /\ LET q == RdInc(MOf(ins))
           IN  Finish(ins, [Post EXCEPT !.qReg = q,
                                        !.store = Wr(StoreInc, bReg, q),
                                        !.dt = 30])
        /\ UNCHANGED ioVars

\* case 1: Add, m inside the store
Fn1 ==
    /\ Running
    /\ \E ins \in Fetched :
        /\ Exec(ins, 1)
        /\ MOf(ins) < STORE_SIZE
        /\ Finish(ins, [Post EXCEPT
               !.aReg = Low(aReg + RdInc(MOf(ins)), MASK18),
               !.dt = 23])
        /\ UNCHANGED ioVars

\* case 1: Add, m outside the store: no checkAddress, store[m] is read
Fn1Outside ==
    /\ Running
    /\ \E ins \in Fetched, w \in OobWords :
        /\ Exec(ins, 1)
        /\ MOf(ins) >= STORE_SIZE
        /\ Finish(ins, [Post EXCEPT !.aReg = Low(aReg + w, MASK18), !.dt = 23,
                                    !.oob = TRUE])
        /\ UNCHANGED ioVars

\* case 2: Negate and add
Fn2 ==
    /\ Running
    /\ \E ins \in Fetched :
        /\ Exec(ins, 2)
        /\ LET q == RdInc(MOf(ins))
           IN  Finish(ins, [Post EXCEPT !.qReg = q,
                                        !.aReg = Low(q - aReg, MASK18),
                                        !.dt = 26])
        /\ UNCHANGED ioVars

\* case 3: Store Q
Fn3 ==
    /\ Running
    /\ \E ins \in Fetched :
        /\ Exec(ins, 3)
        /\ Finish(ins, [Post EXCEPT
               !.store = Wr(StoreInc, MOf(ins), Shr(qReg, 1)),
               !.dt = 25])
        /\ UNCHANGED ioVars

\* case 4: Load A
Fn4 ==
    /\ Running
    /\ \E ins \in Fetched :
        /\ Exec(ins, 4)
        /\ Finish(ins, [Post EXCEPT !.aReg = RdInc(MOf(ins)), !.dt = 23])
        /\ UNCHANGED ioVars

\* a Store A that protects the initial orders at every level
Fn5AnyLevel ==
    /\ Running
    /\ \E ins \in Fetched :
        /\ Exec(ins, 5)
        /\ Finish(ins, [Post EXCEPT
               !.store = IF MOf(ins) >= 8180 /\ MOf(ins) <= 8191
                         THEN StoreInc
                         ELSE Wr(StoreInc, MOf(ins), aReg),
               !.dt = 25])
        /\ UNCHANGED ioVars

\* case 5: Store A
Fn5 ==
    /\ Running
    /\ \E ins \in Fetched :
        /\ Exec(ins, 5)
        /\ Finish(ins, [Post EXCEPT
               !.store = IF level = 1 /\ MOf(ins) >= 8180 /\ MOf(ins) <= 8191
                         THEN StoreInc
                         ELSE Wr(StoreInc, MOf(ins), aReg),
               !.dt = 25])
        /\ UNCHANGED ioVars

\* case 6: Collate
Fn6 ==
    /\ Running
    /\ \E ins \in Fetched :
        /\ Exec(ins, 6)
        /\ Finish(ins, [Post EXCEPT
               !.aReg = And(aReg, RdInc(MOf(ins))),
               !.dt = 23])
        /\ UNCHANGED ioVars

\* case 7: Jump if zero
Fn7 ==
    /\ Running
    /\ \E ins \in Fetched :
        /\ Exec(ins, 7)
        /\ Finish(ins, [Post EXCEPT
               !.store = IF aReg = 0 THEN Wr(StoreInc, scReg, MOf(ins))
                         ELSE StoreInc,
               !.dt = (IF aReg = 0 THEN 28 ELSE 0)
                      + (IF aReg > 0 THEN 21 ELSE 20)])
        /\ UNCHANGED ioVars

\* case 8: Jump unconditional
Fn8 ==
    /\ Running
    /\ \E ins \in Fetched :
        /\ Exec(ins, 8)
        /\ Finish(ins, [Post EXCEPT !.store = Wr(StoreInc, scReg, MOf(ins)),
                                    !.dt = 23])
        /\ UNCHANGED ioVars

\* case 9: Jump if negative
Fn9 ==
    /\ Running
    /\ \E ins \in Fetched :
        /\ Exec(ins, 9)
        /\ Finish(ins, [Post EXCEPT
               !.store = IF aReg >= BIT18 THEN Wr(StoreInc, scReg, MOf(ins))
                         ELSE StoreInc,
               !.dt = (IF aReg >= BIT18 THEN 25 ELSE 0) + 20])
        /\ UNCHANGED ioVars

\* case 10: increment in store
Fn10 ==
    /\ Running
    /\ \E ins \in Fetched :
        /\ Exec(ins, 10)
        /\ Finish(ins, [Post EXCEPT
               !.store = Wr(StoreInc, MOf(ins),
                            Low(RdInc(MOf(ins)) + 1, MASK18)),
               !.dt = 24])
        /\ UNCHANGED ioVars

\* case 11: Store S, m inside the store
Fn11 ==
    /\ Running
    /\ \E ins \in Fetched :
        /\ Exec(ins, 11)
        /\ MOf(ins) < STORE_SIZE
        /\ LET s == RdInc(scReg)
           IN  Finish(ins, [Post EXCEPT
                   !.qReg = ModBits(s),
                   !.store = Wr(StoreInc, MOf(ins), Low(s, ADDR_MASK)),
                   !.dt = 30])
        /\ UNCHANGED ioVars

\* case 11: Store S, m outside the store: no checkAddress, store[m] is
\* written past the array and store[] itself is left as it was
Fn11Outside ==
    /\ Running
    /\ \E ins \in Fetched :
        /\ Exec(ins, 11)
        /\ MOf(ins) >= STORE_SIZE
        /\ Finish(ins, [Post EXCEPT !.qReg = ModBits(RdInc(scReg)),
                                    !.dt = 30, !.oob = TRUE])
        /\ UNCHANGED ioVars

(***************************************************************************)
(* Functions 12 to 14                                                      *)
(***************************************************************************)
\* case 12: Multiply
Fn12 ==
    /\ Running
    /\ \E ins \in Fetched :
        /\ Exec(ins, 12)
        /\ LET aq == Mul(aReg, RdInc(MOf(ins)))
           IN  Finish(ins, [Post EXCEPT !.aReg = aq[1], !.qReg = aq[2],
                                        !.dt = 79])
        /\ UNCHANGED ioVars

\* case 13: Divide by a non-zero word
Fn13 ==
    /\ Running
    /\ \E ins \in Fetched :
        /\ Exec(ins, 13)
        /\ SignExtend(RdInc(MOf(ins))) # 0
        /\ LET aq == Div(aReg, qReg, RdInc(MOf(ins)))
           IN  Finish(ins, [Post EXCEPT !.aReg = aq[1], !.qReg = aq[2],
                                        !.dt = 79])
        /\ UNCHANGED ioVars

\* case 13: aql / ml with ml = 0 is undefined; a build whose division
\* instruction does not trap yields the quotient 0
Fn13Zero ==
    /\ Running
    /\ \E ins \in Fetched :
        /\ Exec(ins, 13)
        /\ SignExtend(RdInc(MOf(ins))) = 0
        /\ Finish(ins, [Post EXCEPT !.aReg = 1, !.qReg = 0, !.dt = 79])
        /\ UNCHANGED ioVars

\* places = m & ADDR_MASK
Places(ins) == Low(MOf(ins), ADDR_MASK)

\* case 14: Shift left
Fn14Left ==
    /\ Running
    /\ \E ins \in Fetched :
        /\ Exec(ins, 14)
        /\ Places(ins) <= 2047
        /\ LET aq == ShiftLeft(aReg, qReg, Places(ins))
           IN  Finish(ins, [Post EXCEPT !.aReg = aq[1], !.qReg = aq[2],
                                        !.dt = 24 + 7 * Places(ins)])
        /\ UNCHANGED ioVars

\* case 14: Shift right
Fn14Right ==
    /\ Running
    /\ \E ins \in Fetched :
        /\ Exec(ins, 14)
        /\ Places(ins) >= 6144
        /\ LET aq == ShiftRight(aReg, qReg, Places(ins))
           IN  Finish(ins, [Post EXCEPT !.aReg = aq[1], !.qReg = aq[2],
                                        !.dt = 24 + 7 * (8192 - Places(ins))])
        /\ UNCHANGED ioVars

\* case 14: unsupported shift
Fn14Unsupported ==
    /\ Running
    /\ \E ins \in Fetched :
        /\ Exec(ins, 14)
        /\ Places(ins) > 2047
        /\ Places(ins) < 6144
        /\ Abort(ins, EXIT_FAILURE, TRUE, ttyOut, lastttych)
        /\ UNCHANGED ioVars

\* the instruction does something the C standard leaves undefined
Undefined(ins) ==
    \/ LastSCR < 0
    \/ FnOf(ins) \in {1, 11} /\ MOf(ins) >= STORE_SIZE
    \/ /\ FnOf(ins) = 13
       /\ MOf(ins) < STORE_SIZE
       /\ SignExtend(RdInc(MOf(ins))) = 0

\* an access outside store[] or a division by zero ends the process by a
\* signal: no teardown runs
UBCrash ==
    /\ Running
    /\ \E ins \in Fetched :
        /\ LastSCR < STORE_SIZE
        /\ Undefined(ins)
        /\ pc' = "crashed"
        /\ store' = StoreInc
        /\ IF LastSCR < 0
           THEN \* the read of store[lastSCR] faults
                /\ iCount' = iCount + 1
                /\ lastSCR' = LastSCR
                /\ UNCHANGED <<instruction, f, a, m, fCount, emTime, steps>>
           ELSE \* the fault is inside the switch
                /\ Decode(ins)
                /\ emTime' = AddTime(emTime, BTime(ins))
        /\ oob' = (oob \/ LastSCR < 0 \/ FnOf(ins) \in {1, 11})
        /\ UNCHANGED <<aReg, qReg, scReg, abandon, stopFile, ttyOut, lastttych,
                       exitCode, reason, wr, envVars, sigVars, fileVars, ioVars>>

(***************************************************************************)
(* Function 15: input/output                                               *)
(***************************************************************************)
\* z = m & ADDR_MASK
Z(ins) == Low(MOf(ins), ADDR_MASK)

\* readTape() position: the file is opened on first demand
PtrPos == IF ptrFile = -1 THEN 0 ELSE ptrFile

\* case 2048: read from tape reader
ReadTape ==
    /\ Running
    /\ \E ins \in Fetched :
        /\ Exec(ins, 15)
        /\ Z(ins) = 2048
        /\ IF PtrPos < Len(ptrTape)
           THEN /\ Finish(ins, [Post EXCEPT
                       !.aReg = Low(Or(aReg * 128, ptrTape[PtrPos + 1]), MASK18),
                       !.dt = 4000])
                /\ ptrFile' = PtrPos + 1
           ELSE /\ Abort(ins, EXIT_RDRSTOP, TRUE, ttyOut, lastttych)
                /\ ptrFile' = PtrPos
        /\ UNCHANGED <<lvlVars, punVars, ttyVars, plotVars>>

\* readTTY() position
TtyPos == IF ttyiFile = -1 THEN 0 ELSE ttyiFile

\* case 2052: read from teletype, below the cap
ReadTTY ==
    /\ Running
    /\ \E ins \in Fetched :
        /\ Exec(ins, 15)
        /\ Z(ins) = 2052
        /\ ttyCount < REEL
        /\ ttyCount' = ttyCount + 1
        /\ IF TtyPos < Len(ttyiTape)
           THEN LET ch == ttyiTape[TtyPos + 1]
                IN  /\ Finish(ins, [Post EXCEPT
                           !.aReg = Low(Or(aReg * 128, ch), MASK18),
                           !.ttyOut = Append(ttyOut, Low(ch, 127)),
                           !.dt = 100000])
                    /\ ttyiFile' = TtyPos + 1
           ELSE /\ Abort(ins, EXIT_TTYSTOP, FALSE, ttyOut, lastttych)
                /\ ttyiFile' = TtyPos
        /\ UNCHANGED <<lvlVars, rdrVars, punVars, plotVars>>

\* setupPlotter() on movePlotter's first call
PenX0 == IF firstCall THEN 1500 ELSE plotterPenX
PenY0 == IF firstCall THEN PAPER_HEIGHT - 200 ELSE plotterPenY
PenDown0 == IF firstCall THEN FALSE ELSE plotterPenDown

\* bits & b for a single bit b
Bit(bits, b) == (bits \div b) % 2 = 1

\* case 4864: send to plotter, movePlotter(aReg)
Plot ==
    /\ Running
    /\ \E ins \in Fetched :
        /\ Exec(ins, 15)
        /\ Z(ins) = 4864
        /\ LET e == IF Bit(aReg, 1) /\ PenX0 < PAPER_WIDTH THEN PenX0 + 1
                    ELSE PenX0
               x == IF Bit(aReg, 2) /\ e > 0 THEN e - 1 ELSE e
               n == IF Bit(aReg, 4) THEN PenY0 - 1 ELSE PenY0
               y == IF Bit(aReg, 8) THEN n + 1 ELSE n
               u == IF Bit(aReg, 16) THEN FALSE ELSE PenDown0
               d == IF Bit(aReg, 32) THEN TRUE ELSE u
           IN  /\ plotterPenX' = x
               /\ plotterPenY' = y
               /\ plotterPenDown' = d
               /\ firstCall' = FALSE
               /\ plotterPaper' =
                      IF d
                      THEN plotterPaper \cup
                           {p \in ((x - PEN_SIZE)..(x + PEN_SIZE))
                                  \X ((y - PEN_SIZE)..(y + PEN_SIZE)) :
                               /\ p[2] >= 0 /\ p[2] < PAPER_HEIGHT
                               /\ p[1] >= 0 /\ p[1] < PAPER_WIDTH}
                      ELSE plotterPaper
        /\ Finish(ins, [Post EXCEPT !.dt = IF aReg >= 16 THEN 20000 ELSE 3300])
        /\ UNCHANGED <<lvlVars, rdrVars, punVars, ttyVars>>

\* case 6144: write to paper tape punch, below the cap
Punch ==
    /\ Running
    /\ \E ins \in Fetched :
        /\ Exec(ins, 15)
        /\ Z(ins) = 6144
        /\ punchCount < REEL
        /\ punchCount' = punchCount + 1
        /\ punFile' = [punFile EXCEPT !.open = TRUE,
                                      !.data = Append(@, Low(aReg, 255))]
        /\ Finish(ins, [Post EXCEPT !.dt = 9091])
        /\ UNCHANGED <<lvlVars, rdrVars, ttyVars, plotVars>>

\* punchTape() or readTTY() finds its count at the cap
AtCap(ins) ==
    \/ Z(ins) = 6144 /\ punchCount >= REEL
    \/ Z(ins) = 2052 /\ ttyCount >= REEL

\* cases 6144 and 2052 at the cap: flushTTY(); exit(EXIT_PUNSTOP)
ReelStop ==
    /\ Running
    /\ \E ins \in Fetched :
        LET tty == flushTTY(ttyOut, lastttych)
        IN  /\ Exec(ins, 15)
            /\ AtCap(ins)
            /\ punchCount' = IF Z(ins) = 6144 THEN punchCount + 1 ELSE punchCount
            /\ ttyCount' = IF Z(ins) = 2052 THEN ttyCount + 1 ELSE ttyCount
            /\ Decode(ins)
            /\ store' = StoreInc
            /\ emTime' = AddTime(emTime, BTime(ins))
            /\ ttyOut' = tty[1]
            /\ lastttych' = tty[2]
            /\ oob' = (oob \/ LastSCR < 0)
            /\ pc' = "exited"
            /\ exitCode' = EXIT_PUNSTOP
            /\ UNCHANGED <<aReg, qReg, scReg, abandon, stopFile, reason, wr,
                           envVars, sigVars, fileVars, lvlVars, rdrVars, plotVars,
                           punFile, ttyiFile>>

\* writeTTY(ch): the character put on stdout, or -1
TtyChar(ch) ==
    LET c == Low(ch, 127)
    IN  IF c = 10 \/ (c >= 32 /\ c <= 122) THEN c ELSE -1

\* case 6148: write to teletype
WriteTTY ==
    /\ Running
    /\ \E ins \in Fetched :
        /\ Exec(ins, 15)
        /\ Z(ins) = 6148
        /\ LET ch2 == TtyChar(Low(aReg, 255))
           IN  Finish(ins, [Post EXCEPT
                   !.ttyOut = IF ch2 # -1 THEN Append(ttyOut, ch2) ELSE ttyOut,
                   !.lastttych = IF ch2 # -1 THEN ch2 ELSE lastttych,
                   !.dt = 100000])
        /\ UNCHANGED ioVars

\* a level terminate that leaves the B register of level 1 in use
LevelTerminateKeepsB ==
    /\ Running
    /\ \E ins \in Fetched :
        /\ Exec(ins, 15)
        /\ Z(ins) = 7168
        /\ level' = 4
        /\ bReg' = bReg
        /\ Finish(ins, [Post EXCEPT !.scReg = SCRLEVEL4, !.dt = 19])
        /\ UNCHANGED <<rdrVars, punVars, ttyVars, plotVars>>

\* case 7168: Level terminate
LevelTerminate ==
    /\ Running
    /\ \E ins \in Fetched :
        /\ Exec(ins, 15)
        /\ Z(ins) = 7168
        /\ level' = 4
        /\ bReg' = BREGLEVEL4
        /\ Finish(ins, [Post EXCEPT !.scReg = SCRLEVEL4, !.dt = 19])
        /\ UNCHANGED <<rdrVars, punVars, ttyVars, plotVars>>

\* default: unsupported input/output instruction
Fn15Unsupported ==
    /\ Running
    /\ \E ins \in Fetched :
        /\ Exec(ins, 15)
        /\ Z(ins) \notin {2048, 2052, 4864, 6144, 6148, 7168}
        /\ Abort(ins, EXIT_FAILURE, TRUE, ttyOut, lastttych)
        /\ UNCHANGED ioVars

(***************************************************************************)
(* tidyExit                                                                *)
(***************************************************************************)
\* writeStore()'s loop is followed in WriteSteps pieces
WriteSteps == 2

ChunkCells == (STORE_SIZE + WriteSteps - 1) \div WriteSteps

\* tidyExit: flushTTY(); writeStore() opens the image file with mode "w"
TidyOpen ==
    LET tty == flushTTY(ttyOut, lastttych)
    IN  /\ pc = "tidy"
        /\ storeValid
        /\ ttyOut' = tty[1]
        /\ lastttych' = tty[2]
        /\ storeFile' = IntFile(0, clearStore)
        /\ wr' = 0
        /\ pc' = "writing"
        /\ UNCHANGED <<exitCode, reason, envVars, sigVars, store, aReg, qReg, scReg,
                       lastSCR, iCount, fCount, instruction, f, a, m, emTime,
                       abandon, stopFile, ioVars, saveFile, plotFile,
                       storeValid, oob, steps>>

\* writeStore(): fprintf(f, "%7d", store[i]) for the next cells
TidyWrite ==
    /\ pc = "writing"
    /\ wr < STORE_SIZE
    /\ wr' = IF wr + ChunkCells > STORE_SIZE THEN STORE_SIZE ELSE wr + ChunkCells
    /\ storeFile' = Written(store, wr')
    /\ UNCHANGED <<pc, exitCode, reason, envVars, sigVars, cpuVars, ioVars, saveFile,
                   plotFile, storeValid, oob, steps>>

\* the fclose calls made once tidyExit has closed the streams that are open
Closed ==
    [ptr  |-> closes.ptr + (IF ptrFile # -1 THEN 1 ELSE 0),
     ttyi |-> closes.ttyi + (IF ttyiFile # -1 THEN 1 ELSE 0),
     pun  |-> closes.pun + (IF punFile.open THEN 1 ELSE 0)]

\* tidyExit after writeStore(): the residual tape is copied to the save
\* file, the streams are closed and the plotter paper is saved
CloseUp ==
    /\ pc = "writing"
    /\ wr = STORE_SIZE
    /\ saveFile' = [exists |-> TRUE,
                    data |-> IF ptrFile # -1
                             THEN SubSeq(ptrTape, ptrFile + 1, Len(ptrTape))
                             ELSE <<>>]
    /\ ptrFile' = IF ptrFile # -1 THEN Len(ptrTape) ELSE ptrFile
    /\ plotFile' = IF firstCall THEN plotFile
                   ELSE [exists |-> TRUE, black |-> plotterPaper]
    /\ closes' = Closed
    /\ UNCHANGED <<reason, wr, envVars, inHandler, stale, cpuVars, lvlVars,
                   punVars, ttyVars, plotVars, storeFile, storeValid, oob,
                   steps>>

\* the rest of tidyExit in one step, exit(reason) included
TidyClose ==
    /\ CloseUp
    /\ pc' = "exited"
    /\ exitCode' = reason

(***************************************************************************)
(* Session start                                                           *)
(***************************************************************************)
\* emulate(): clearStore(); readStore(); loadII(); store[scReg] = opKeys
Setup ==
    /\ pc = "start"
    /\ IF readStoreFails(storeFile)
       THEN /\ pc' = "exited"
            /\ exitCode' = EXIT_FAILURE
            /\ UNCHANGED <<store, storeValid>>
       ELSE /\ pc' = "run"
            /\ store' = Wr(loadII(readStore(clearStore, storeFile)), scReg, opKeys)
            /\ storeValid' = TRUE
            /\ UNCHANGED exitCode
    /\ UNCHANGED <<reason, wr, envVars, sigVars, aReg, qReg, scReg, lastSCR, iCount,
                   fCount, instruction, f, a, m, emTime, abandon, stopFile,
                   ttyOut, lastttych, ioVars, storeFile, saveFile, plotFile,
                   oob, steps>>

(***************************************************************************)
(* Sessions the model follows: store images, tapes and options             *)
(***************************************************************************)
\* a store image file holding a whole store
Image(cells) == IntFile(STORE_SIZE, cells)

\* data words of the images: cell 1 is the level-1 B register
DataValid ==
    (1 :> 16300) @@ (200 :> 5) @@ (201 :> MASK18) @@ (202 :> BIT18)

\* the same with words no 18-bit cell can hold, which readStore accepts
DataRaw == DataValid @@ (204 :> -5) @@ (205 :> 300000)

\* the first instruction of a program loads a register
Loads ==
    { makeIns(0, 4, 200), makeIns(0, 4, 201), makeIns(0, 0, 201),
      makeIns(0, 4, 204), makeIns(0, 2, 205) }

\* the instructions tried at address x
Instrs(x) ==
    { makeIns(0, 0, 200), makeIns(1, 0, 200),
      makeIns(0, 1, 201), makeIns(1, 1, 200),
      makeIns(0, 2, 200),
      makeIns(0, 3, 8185), makeIns(0, 3, 300),
      makeIns(0, 4, 205),
      makeIns(0, 5, 8180), makeIns(0, 5, 300), makeIns(0, 5, 0),
      makeIns(0, 6, 202),
      makeIns(0, 7, x), makeIns(0, 8, x), makeIns(0, 9, x),
      makeIns(1, 8, 8000),
      makeIns(0, 10, 8190), makeIns(0, 10, 201),
      makeIns(0, 11, 8191), makeIns(1, 11, 200), makeIns(0, 11, 0),
      makeIns(0, 12, 201),
      makeIns(0, 13, 200), makeIns(0, 13, 203),
      makeIns(0, 14, 1), makeIns(0, 14, 8191), makeIns(0, 14, 3000),
      makeIns(0, 15, 2048), makeIns(0, 15, 2052), makeIns(0, 15, 4864),
      makeIns(0, 15, 6144), makeIns(0, 15, 6148), makeIns(0, 15, 7168),
      makeIns(0, 15, 1) }

\* the generated programs: a load at 100, an instruction at 101 and a jump
\* to itself at 102
Programs ==
    {(100 :> l) @@ (101 :> w) @@ (102 :> makeIns(0, 8, 102)) :
        l \in Loads, w \in Instrs(101)}

Session(img, keys, tape, tty, ab, rt) ==
    [image |-> img, opKeys |-> keys, ptrTape |-> tape, ttyiTape |-> tty,
     abandon |-> ab, diagLimit |-> rt]

\* generated programs, started at 100
Generated ==
    {Session(Image(p @@ DataValid), 100, <<129>>, <<65>>, ab, -1) :
        p \in Programs, ab \in {-1, 2}}
    \cup {Session(Image(p @@ DataRaw), 100, <<129>>, <<65>>, -1, -1) :
        p \in Programs}

\* the 18-bit words the arithmetic programs are run on
Words == {0, 1, 2, 3, 65536, 87381, 131071, 131072, 174762, 262143}

\* the words in Q
QWords == {0, 1, 131072, 174762, 262143}

\* shifts tried alone: left 0, 18, 35, 36, 37, 2047 and right 1, 17, 18, 35,
\* 36, 37, 2048 places
Shifts == {0, 18, 35, 36, 37, 2047, 8191, 8175, 8174, 8157, 8156, 8155, 6144}

\* a function whose zero values are left out, as the store is kept
Cells(c) == [x \in {y \in DOMAIN c : c[y] # 0} |-> c[x]]

\* the arithmetic program: Q and the level-1 B register are loaded from cell
\* 501 and A from cell 502, then op1 and op2 are obeyed; cell 500 holds mw
ArithCells(qw, aw, mw, op1, op2) ==
    Cells((98 :> makeIns(0, 0, 501)) @@ (99 :> makeIns(0, 4, 502))
          @@ (100 :> op1) @@ (101 :> op2)
          @@ (500 :> mw) @@ (501 :> qw) @@ (502 :> aw))

\* the arithmetic programs: <<Q, A, cell 500, op1, op2, instructions followed>>
ArithRuns ==
    \* multiply, then shift right 18 places
    {<<0, aw, mw, makeIns(0, 12, 500), makeIns(0, 14, 8174), 2>> :
        aw \in Words, mw \in Words}
    \* divide
    \cup {<<qw, aw, mw, makeIns(0, 13, 500), 0, 1>> :
        qw \in QWords, aw \in Words, mw \in Words}
    \* shift left k places, then right k places
    \cup {<<qw, aw, 0, makeIns(0, 14, k), makeIns(0, 14, 8192 - k), 2>> :
        qw \in QWords, aw \in Words, k \in 1..17}
    \* a single shift
    \cup {<<qw, aw, 0, makeIns(0, 14, z), 0, 1>> :
        qw \in QWords, aw \in Words, z \in Shifts}

\* level terminate with cell 6, the level-4 SCR, holding c
Level4(c) ==
    Session(Image((100 :> makeIns(0, 15, 7168)) @@ (6 :> c)
                  @@ (300 :> makeIns(0, 8, 300))),
            100, <<>>, <<>>, -1, -1)

\* the plot loop  100: 15 4864   101: 8 100  in an otherwise empty store: with
\* A = 0 the pen stays up where setupPlotter() put it
PlotLoop == (100 :> makeIns(0, 15, 4864)) @@ (101 :> makeIns(0, 8, 100))

\* level terminate at 100 into the level-4 program at 300: A loaded with B
\* modification, B loaded from cell 200, A loaded with B modification again,
\* a jump to itself; cells 1 and 7 are the B registers of levels 1 and 4
Level4Program ==
    (1 :> 9) @@ (6 :> 300) @@ (7 :> 3) @@ (100 :> makeIns(0, 15, 7168))
    @@ (200 :> 5) @@ (300 :> makeIns(1, 4, 400)) @@ (301 :> makeIns(0, 0, 200))
    @@ (302 :> makeIns(1, 4, 400)) @@ (303 :> makeIns(0, 8, 303))
    @@ (403 :> 33) @@ (405 :> 55) @@ (409 :> 99)

\* increment B, load through B, read the SCR, add B, store A in the SCR
SameBitsProgram ==
    (1 :> 3) @@ (100 :> makeIns(0, 10, 1)) @@ (101 :> makeIns(1, 4, 400))
    @@ (102 :> makeIns(0, 4, 0)) @@ (103 :> makeIns(0, 1, 1))
    @@ (104 :> makeIns(0, 5, 0)) @@ (107 :> makeIns(0, 8, 107))
    @@ (404 :> 44)

\* load A, level terminate, store A in 8185, level terminate again, stop
Level4Store ==
    (6 :> 300) @@ (100 :> makeIns(0, 4, 200)) @@ (101 :> makeIns(0, 15, 7168))
    @@ (200 :> 5) @@ (300 :> makeIns(0, 5, 8185))
    @@ (301 :> makeIns(0, 15, 7168)) @@ (302 :> makeIns(0, 8, 302))

\* Q, B and A are loaded from cell 200, then w is obeyed
Unsupported(w) ==
    Session(Image((100 :> makeIns(0, 0, 200)) @@ (101 :> makeIns(0, 4, 200))
                  @@ (102 :> w) @@ (200 :> 174762)),
            100, <<>>, <<>>, -1, -1)

\* the east loop  99: 4 200   100: 15 4864   101: 8 100  with cell 200 = 1:
\* every turn steps the raised pen one place East
EastLoop ==
    (99 :> makeIns(0, 4, 200)) @@ (100 :> makeIns(0, 15, 4864))
    @@ (101 :> makeIns(0, 8, 100)) @@ (200 :> 1)

Special ==
    { \* a jump to itself in an otherwise empty store
      Session(Image(100 :> makeIns(0, 8, 100)), 100, <<>>, <<>>, -1, -1),
      \* the initial orders reading a tape, no store image
      Session(NoFile, 8181, <<1, 2, 3>>, <<>>, -1, -1),
      \* an r-trace window
      Session(Image(100 :> makeIns(0, 8, 101)), 100, <<>>, <<>>, -1, 1),
      \* images readStore rejects
      Session(IntFile(STORE_SIZE + 1, 100 :> makeIns(0, 8, 100)),
              100, <<>>, <<>>, -1, -1),
      Session([exists |-> TRUE, n |-> 3, tok |-> (0 :> 7), bad |-> 1],
              100, <<>>, <<>>, -1, -1),
      Level4(-5), Level4(20000), Level4(100), Level4(300),
      \* a jump to itself over an image with a seven-digit integer
      Session(Image((100 :> makeIns(0, 8, 100)) @@ (205 :> 1234567)),
              100, <<>>, <<>>, -1, -1),
      \* an abandon limit of one instruction on a jump to itself
      Session(Image(100 :> makeIns(0, 8, 100)), 100, <<>>, <<>>, 1, -1),
      \* an abandon limit of two instructions and an r-trace window from the
      \* first
      Session(Image(100 :> makeIns(0, 8, 101)), 100, <<>>, <<>>, 2, 1),
      \* an image that holds words in the cells of the initial orders and
      \* beyond them, and an image of 101 integers
      Session(Image((100 :> makeIns(0, 8, 100)) @@ (8180 :> 5) @@ (8185 :> 7)
                    @@ (8192 :> 9)),
              100, <<>>, <<>>, -1, -1),
      Session(IntFile(101, (3 :> 4) @@ (100 :> makeIns(0, 8, 100))),
              100, <<>>, <<>>, -1, -1),
      \* a control character on the teletype input
      Session(Image((100 :> makeIns(0, 15, 2052)) @@ (101 :> makeIns(0, 8, 101))),
              100, <<>>, <<7>>, -1, -1),
      \* the plot loop from its start
      Session(Image(PlotLoop), 100, <<7>>, <<>>, -1, -1),
      \* level terminate into a program that uses the B register
      Session(Image(Level4Program), 100, <<>>, <<>>, -1, -1),
      \* an arithmetic program from its start
      Session(Image(ArithCells(174762, 65536, 3, makeIns(0, 12, 500),
                               makeIns(0, 14, 8174))),
              98, <<>>, <<>>, -1, -1),
      \* a B-modified load in module 1 whose address wraps at 16 bits
      Session(Image((1 :> 262143) @@ (8291 :> 77)
                    @@ (8300 :> makeIns(1, 4, 100))
                    @@ (8301 :> makeIns(0, 8, 109))),
              8300, <<>>, <<>>, -1, -1),
      \* a program that reads and writes cells 0 and 1
      Session(Image(SameBitsProgram), 100, <<>>, <<>>, -1, -1),
      \* a store into the initial orders at level 4
      Session(Image(Level4Store), 100, <<>>, <<>>, -1, -1),
      \* a Store S in module 1
      Session(Image((8300 :> makeIns(0, 11, 50)) @@ (8301 :> makeIns(0, 8, 109))),
              8300, <<>>, <<>>, -1, -1),
      \* unsupported shifts and input/output codes, the edges included
      Unsupported(makeIns(0, 14, 2048)), Unsupported(makeIns(0, 14, 6143)),
      Unsupported(makeIns(0, 15, 0)), Unsupported(makeIns(0, 15, 2049)),
      Unsupported(makeIns(0, 15, 7169)), Unsupported(makeIns(0, 15, 8191)),
      \* the east loop from its start
      Session(Image(EastLoop), 99, <<>>, <<>>, -1, -1) }

Sessions == Generated \cup Special

(***************************************************************************)
(* Initial states                                                          *)
(***************************************************************************)
\* the process as main() enters emulate()
InitStart ==
    \E s \in Sessions :
        /\ pc = "start"
        /\ exitCode = -1 /\ reason = -1 /\ wr = 0
        /\ opKeys = s.opKeys /\ diagLimit = s.diagLimit /\ abandon = s.abandon
        /\ abandonArg = s.abandon
        /\ store = clearStore /\ storeValid = FALSE
        /\ aReg = 0 /\ qReg = 0
        /\ bReg = BREGLEVEL1 /\ scReg = SCRLEVEL1
        /\ lastSCR = 0 /\ level = 1
        /\ iCount = 0 /\ fCount = [i \in 0..16 |-> 0]
        /\ instruction = 0 /\ f = 0 /\ a = 0 /\ m = 0 /\ emTime = <<0, 0>>
        /\ ptrTape = s.ptrTape /\ ptrFile = -1
        /\ punFile = [open |-> FALSE, zeros |-> 0, data |-> <<>>]
        /\ punchCount = -1
        /\ ttyiTape = s.ttyiTape /\ ttyiFile = -1 /\ ttyCount = -1
        /\ ttyOut = <<>> /\ lastttych = -1
        /\ plotterPaper = {} /\ plotterPenX = 0 /\ plotterPenY = 0
        /\ plotterPenDown = FALSE /\ firstCall = TRUE
        /\ storeFile = s.image
        /\ saveFile = [exists |-> FALSE, data |-> <<>>]
        /\ stopFile = [exists |-> FALSE, value |-> 0]
        /\ plotFile = [exists |-> FALSE, black |-> {}]
        /\ image0 = s.image
        /\ oob = FALSE
        /\ steps = 0
        /\ inHandler = FALSE /\ stale = FALSE
        /\ closes = [ptr |-> 0, ttyi |-> 0, pun |-> 0]

\* the punch loop  100: 15 6144   101: 8 100  in an otherwise empty store
PunchLoop == (100 :> makeIns(0, 15, 6144)) @@ (101 :> makeIns(0, 8, 100))

\* the session of PunchLoop, started at 100, after REEL turns of the loop:
\* REEL characters punched, the next punchTape() but one finds the cap
InitReel ==
    /\ pc = "run"
    /\ exitCode = -1 /\ reason = -1 /\ wr = 0
    /\ opKeys = 100 /\ diagLimit = -1 /\ abandon = -1
    /\ abandonArg = -1
    /\ store = Wr(loadII(PunchLoop), SCRLEVEL1, 100) /\ storeValid = TRUE
    /\ aReg = 0 /\ qReg = 0
    /\ bReg = BREGLEVEL1 /\ scReg = SCRLEVEL1
    /\ lastSCR = 101 /\ level = 1
    /\ iCount = 2 * REEL
    /\ fCount = [i \in 0..16 |-> IF i \in {8, 15} THEN REEL ELSE 0]
    /\ instruction = makeIns(0, 8, 100) /\ f = 8 /\ a = 100 /\ m = 100
    /\ emTime = AddTime(<<0, 0>>, REEL * (9091 + 23))
    /\ ptrTape = <<7>> /\ ptrFile = -1
    /\ punFile = [open |-> TRUE, zeros |-> REEL, data |-> <<>>]
    /\ punchCount = REEL - 1
    /\ ttyiTape = <<>> /\ ttyiFile = -1 /\ ttyCount = -1
    /\ ttyOut = <<>> /\ lastttych = -1
    /\ plotterPaper = {} /\ plotterPenX = 0 /\ plotterPenY = 0
    /\ plotterPenDown = FALSE /\ firstCall = TRUE
    /\ storeFile = Image(PunchLoop)
    /\ saveFile = [exists |-> FALSE, data |-> <<>>]
    /\ stopFile = [exists |-> FALSE, value |-> 0]
    /\ plotFile = [exists |-> FALSE, black |-> {}]
    /\ image0 = Image(PunchLoop)
    /\ oob = FALSE
    /\ steps = 0
    /\ inHandler = FALSE /\ stale = FALSE
    /\ closes = [ptr |-> 0, ttyi |-> 0, pun |-> 0]

\* turns of the plot loop that take just under two days of emulated time
LoopTurns == 52001203

\* emTime after k turns of the plot loop, 3300 + 23 microseconds each
LoopTime(k) ==
    LET x == (k \div 100000) * (3300 + 23)
    IN  AddTime(<<x \div 10000, (x % 10000) * 100000>>,
                (k % 100000) * (3300 + 23))

\* the session of PlotLoop, started at 100 with no abandon limit, after
\* LoopTurns turns of the loop
InitLoop ==
    /\ pc = "run"
    /\ exitCode = -1 /\ reason = -1 /\ wr = 0
    /\ opKeys = 100 /\ diagLimit = -1 /\ abandon = -1
    /\ abandonArg = -1
    /\ store = Wr(loadII(PlotLoop), SCRLEVEL1, 100) /\ storeValid = TRUE
    /\ aReg = 0 /\ qReg = 0
    /\ bReg = BREGLEVEL1 /\ scReg = SCRLEVEL1
    /\ lastSCR = 101 /\ level = 1
    /\ iCount = 2 * LoopTurns
    /\ fCount = [i \in 0..16 |-> IF i \in {8, 15} THEN LoopTurns ELSE 0]
    /\ instruction = makeIns(0, 8, 100) /\ f = 8 /\ a = 100 /\ m = 100
    /\ emTime = LoopTime(LoopTurns)
    /\ ptrTape = <<7>> /\ ptrFile = -1
    /\ punFile = [open |-> FALSE, zeros |-> 0, data |-> <<>>]
    /\ punchCount = -1
    /\ ttyiTape = <<>> /\ ttyiFile = -1 /\ ttyCount = -1
    /\ ttyOut = <<>> /\ lastttych = -1
    /\ plotterPaper = {} /\ plotterPenX = 1500
    /\ plotterPenY = PAPER_HEIGHT - 200
    /\ plotterPenDown = FALSE /\ firstCall = FALSE
    /\ storeFile = Image(PlotLoop)
    /\ saveFile = [exists |-> FALSE, data |-> <<>>]
    /\ stopFile = [exists |-> FALSE, value |-> 0]
    /\ plotFile = [exists |-> FALSE, black |-> {}]
    /\ image0 = Image(PlotLoop)
    /\ oob = FALSE
    /\ steps = 0
    /\ inHandler = FALSE /\ stale = FALSE
    /\ closes = [ptr |-> 0, ttyi |-> 0, pun |-> 0]

\* the session of EastLoop, started at 99 with no abandon limit, after k
\* turns of the loop, k >= 1, the pen not yet at the East edge
EastState(k) ==
    /\ pc = "run"
    /\ exitCode = -1 /\ reason = -1 /\ wr = 0
    /\ opKeys = 99 /\ diagLimit = -1 /\ abandon = -1
    /\ abandonArg = -1
    /\ store = Wr(loadII(EastLoop), SCRLEVEL1, 100) /\ storeValid = TRUE
    /\ aReg = 1 /\ qReg = 0
    /\ bReg = BREGLEVEL1 /\ scReg = SCRLEVEL1
    /\ lastSCR = 101 /\ level = 1
    /\ iCount = 1 + 2 * k
    /\ fCount = [i \in 0..16 |-> IF i \in {8, 15} THEN k
                                 ELSE IF i = 4 THEN 1 ELSE 0]
    /\ instruction = makeIns(0, 8, 100) /\ f = 8 /\ a = 100 /\ m = 100
    /\ emTime = <<0, 23 + k * (3300 + 23)>>
    /\ ptrTape = <<>> /\ ptrFile = -1
    /\ punFile = [open |-> FALSE, zeros |-> 0, data |-> <<>>]
    /\ punchCount = -1
    /\ ttyiTape = <<>> /\ ttyiFile = -1 /\ ttyCount = -1
    /\ ttyOut = <<>> /\ lastttych = -1
    /\ plotterPaper = {} /\ plotterPenX = 1500 + k
    /\ plotterPenY = PAPER_HEIGHT - 200
    /\ plotterPenDown = FALSE /\ firstCall = FALSE
    /\ storeFile = Image(EastLoop)
    /\ saveFile = [exists |-> FALSE, data |-> <<>>]
    /\ stopFile = [exists |-> FALSE, value |-> 0]
    /\ plotFile = [exists |-> FALSE, black |-> {}]
    /\ image0 = Image(EastLoop)
    /\ oob = FALSE
    /\ inHandler = FALSE /\ stale = FALSE
    /\ closes = [ptr |-> 0, ttyi |-> 0, pun |-> 0]

\* the east loop with the pen on the last column of the paper
InitEast == EastState(PAPER_WIDTH - 1 - 1500) /\ steps = 0

\* the session of an arithmetic program, started at 98, after its two loads:
\* the model follows the next one or two instructions
InitArith ==
    \E r \in ArithRuns :
        LET img == Image(ArithCells(r[1], r[2], r[3], r[4], r[5]))
            st0 == Wr(loadII(readStore(clearStore, img)), SCRLEVEL1, 98)
        IN  /\ pc = "run"
            /\ exitCode = -1 /\ reason = -1 /\ wr = 0
            /\ opKeys = 98 /\ diagLimit = -1 /\ abandon = -1
            /\ abandonArg = -1
            /\ store = Wr(Wr(st0, BREGLEVEL1, r[1]), SCRLEVEL1, 100)
            /\ storeValid = TRUE
            /\ aReg = r[2] /\ qReg = r[1]
            /\ bReg = BREGLEVEL1 /\ scReg = SCRLEVEL1
            /\ lastSCR = 99 /\ level = 1
            /\ iCount = 2
            /\ fCount = [i \in 0..16 |-> IF i \in {0, 4} THEN 1 ELSE 0]
            /\ instruction = makeIns(0, 4, 502) /\ f = 4 /\ a = 502 /\ m = 502
            /\ emTime = <<0, 30 + 23>>
            /\ ptrTape = <<>> /\ ptrFile = -1
            /\ punFile = [open |-> FALSE, zeros |-> 0, data |-> <<>>]
            /\ punchCount = -1
            /\ ttyiTape = <<>> /\ ttyiFile = -1 /\ ttyCount = -1
            /\ ttyOut = <<>> /\ lastttych = -1
            /\ plotterPaper = {} /\ plotterPenX = 0 /\ plotterPenY = 0
            /\ plotterPenDown = FALSE /\ firstCall = TRUE
            /\ storeFile = img
            /\ saveFile = [exists |-> FALSE, data |-> <<>>]
            /\ stopFile = [exists |-> FALSE, value |-> 0]
            /\ plotFile = [exists |-> FALSE, black |-> {}]
            /\ image0 = img
            /\ oob = FALSE
            /\ steps = MaxInstr - r[6]
            /\ inHandler = FALSE /\ stale = FALSE
            /\ closes = [ptr |-> 0, ttyi |-> 0, pun |-> 0]

Init == InitStart \/ InitReel \/ InitArith \/ InitLoop \/ InitEast

(***************************************************************************)
(* Specification                                                           *)
(***************************************************************************)
Next ==
    \/ Setup
    \/ FetchFatal \/ AddrFatal \/ UBCrash
    \/ Fn0 \/ Fn1 \/ Fn1Outside \/ Fn2 \/ Fn3 \/ Fn4 \/ Fn5 \/ Fn6
    \/ Fn7 \/ Fn8 \/ Fn9 \/ Fn10 \/ Fn11 \/ Fn11Outside
    \/ Fn12 \/ Fn13 \/ Fn13Zero \/ Fn14Left \/ Fn14Right \/ Fn14Unsupported
    \/ ReadTape \/ ReadTTY \/ Plot \/ Punch \/ ReelStop \/ WriteTTY
    \/ LevelTerminate \/ Fn15Unsupported
    \/ TidyOpen \/ TidyWrite \/ TidyClose

Spec == Init /\ [][Next]_vars

\* the host stops the process while writeStore() is between fopen and fclose
Crash ==
    /\ pc = "writing"
    /\ pc' = "crashed"
    /\ UNCHANGED <<exitCode, reason, wr, envVars, sigVars, cpuVars, ioVars, fileVars,
                   oob, steps>>

NextCrash == Next \/ Crash

\* sessions that the host may stop during writeStore()
SpecCrash == Init /\ [][NextCrash]_vars

(***************************************************************************)
(* Host interrupts: signal(SIGINT, catchInt) is in force from main() on.   *)
(* While catchInt runs the signal is blocked, so the handler is entered at *)
(* most once; it never returns, tidyExit ends in exit(reason).             *)
(***************************************************************************)
\* catchInt up to its call tidyExit(EXIT_FAILURE): flushTTY() and the report
catchInt ==
    LET tty == flushTTY(ttyOut, lastttych)
    IN  /\ ~inHandler
        /\ inHandler' = TRUE
        /\ ttyOut' = tty[1]
        /\ lastttych' = tty[2]
        /\ reason' = EXIT_FAILURE

\* the interrupt arrives before readStore(): storeValid is FALSE, tidyExit
\* closes what is open and exits
IntStart ==
    /\ pc = "start"
    /\ catchInt
    /\ closes' = Closed
    /\ pc' = "exited"
    /\ exitCode' = EXIT_FAILURE
    /\ UNCHANGED <<wr, envVars, stale, store, aReg, qReg, scReg, lastSCR,
                   iCount, fCount, instruction, f, a, m, emTime, abandon,
                   stopFile, ioVars, fileVars, oob, steps>>

\* the interrupt arrives between two instructions of the loop
IntRun ==
    /\ pc = "run"
    /\ catchInt
    /\ pc' = "tidy"
    /\ UNCHANGED <<exitCode, wr, envVars, closes, stale, store, aReg, qReg,
                   scReg, lastSCR, iCount, fCount, instruction, f, a, m,
                   emTime, abandon, stopFile, ioVars, fileVars, oob, steps>>

\* the interrupt arrives after  ++iCount; lastSCR = store[scReg];
\* store[scReg]++  and before the instruction is obeyed
IntFetched ==
    /\ pc = "run"
    /\ Running
    /\ catchInt
    /\ iCount' = iCount + 1
    /\ lastSCR' = LastSCR
    /\ store' = StoreInc
    /\ pc' = "tidy"
    /\ UNCHANGED <<exitCode, wr, envVars, closes, stale, aReg, qReg, scReg,
                   fCount, instruction, f, a, m, emTime, abandon, stopFile,
                   ioVars, fileVars, oob, steps>>

\* the interrupt arrives while tidyExit is in flushTTY() or writeStore():
\* the handler calls tidyExit again, which starts over
IntTidy ==
    /\ pc \in {"tidy", "writing"}
    /\ catchInt
    /\ pc' = "tidy"
    /\ UNCHANGED <<exitCode, wr, envVars, closes, stale, store, aReg, qReg,
                   scReg, lastSCR, iCount, fCount, instruction, f, a, m,
                   emTime, abandon, stopFile, ioVars, fileVars, oob, steps>>

\* tidyExit up to its last fclose, exit(reason) not yet called
TidyCloseFiles ==
    /\ CloseUp
    /\ pc' = "closed"
    /\ UNCHANGED exitCode

\* tidyExit: exit(reason)
TidyExit ==
    /\ pc = "closed"
    /\ pc' = "exited"
    /\ exitCode' = reason
    /\ UNCHANGED <<reason, wr, envVars, sigVars, cpuVars, ioVars, fileVars,
                   oob, steps>>

\* the interrupt arrives after the fclose calls and before exit(reason):
\* the handler's tidyExit writes the image again, opens the save file
\* again, and the pointers it tests are not NULL: fgetc and fclose are
\* applied to streams that are closed, which the C library leaves undefined
IntClosed ==
    /\ pc = "closed"
    /\ catchInt
    /\ storeFile' = Written(store, STORE_SIZE)
    /\ saveFile' = [exists |-> TRUE, data |-> <<>>]
    /\ closes' = Closed
    /\ stale' = (stale \/ ptrFile # -1 \/ ttyiFile # -1 \/ punFile.open)
    /\ IF ptrFile # -1 \/ ttyiFile # -1 \/ punFile.open
       THEN \/ pc' = "exited" /\ exitCode' = EXIT_FAILURE
            \/ pc' = "crashed" /\ UNCHANGED exitCode
       ELSE pc' = "exited" /\ exitCode' = EXIT_FAILURE
    /\ UNCHANGED <<wr, envVars, store, aReg, qReg, scReg, lastSCR, iCount,
                   fCount, instruction, f, a, m, emTime, abandon, stopFile,
                   ioVars, plotFile, storeValid, oob, steps>>

NextInt ==
    \/ Next
    \/ TidyCloseFiles \/ TidyExit
    \/ IntStart \/ IntRun \/ IntFetched \/ IntTidy \/ IntClosed

\* sessions that the user may interrupt
SpecInt == Init /\ [][NextInt]_vars

(***************************************************************************)
(* Properties                                                              *)
(***************************************************************************)
\* the step executes an instruction: ++iCount has been done
Executes == pc = "run" /\ iCount' = iCount + 1

\* the cells of the initial orders
IICells == 8180..8191

\* a value that fits in 18 bits
Word18(v) == v >= 0 /\ v <= MASK18

RECURSIVE SumTo(_, _)
\* c[0] + ... + c[k]
SumTo(c, k) == IF k < 0 THEN 0 ELSE c[k] + SumTo(c, k - 1)

\* the sum of the function-code counters 0..15
SumF == SumTo(fCount, 15)

\* C1: while level 1 is active, an instruction of function 3, 5, 10 or 11
\* whose address m is in 8180..8191 leaves the twelve initial-orders cells
\* as they were.
C1_InitialOrdersImmutable ==
    [][(/\ Executes
        /\ level = 1
        /\ pc' \in {"run", "tidy"}
        /\ f' \in {3, 5, 10, 11}
        /\ m' \in IICells)
       => \A x \in IICells : Rd(store', x) = Rd(store, x)]_vars

\* C2: a session that ends with exit code 1 after it began executing
\* instructions leaves the store image file as the session found it.
C2_FatalSkipsPersistence ==
    (pc = "exited" /\ exitCode = EXIT_FAILURE /\ iCount > 0)
        => storeFile = image0

\* C3: a session ending by dynamic stop, reader stop, teletype stop or limit
\* exits with code 0, 2, 4 or 8, the store image written is the store at
\* termination and the save file holds the reader bytes not yet read.
C3_OrderlyExitSpills ==
    [][(/\ pc = "writing"
        /\ pc' = "exited"
        /\ reason \in {EXIT_DYNSTOP, EXIT_RDRSTOP, EXIT_TTYSTOP, EXIT_LIMITSTOP})
       => /\ exitCode' = reason
          /\ storeFile' = Written(store, STORE_SIZE)
          /\ saveFile' = [exists |-> TRUE,
                          data |-> SubSeq(ptrTape, PtrPos + 1, Len(ptrTape))]]_vars

\* C4: a session that exits with code 16 has persisted the store and
\* written the save file.
C4_PunchCapOrderly ==
    (pc = "exited" /\ exitCode = EXIT_PUNSTOP)
        => /\ storeFile = Written(store, STORE_SIZE)
           /\ saveFile.exists

\* C5: a process stopped before its exit leaves the store image file equal
\* to the complete previous image or to the complete new image.
C5_AtomicReplace ==
    pc = "crashed"
        => \/ storeFile = image0
           \/ storeFile = Written(store, STORE_SIZE)

\* the instruction at s has left the current SCR equal to s, below the limit
JumpedToSelf ==
    /\ Executes
    /\ pc' \in {"run", "tidy"}
    /\ lastSCR' < STORE_SIZE
    /\ Rd(store', scReg') = lastSCR'
    /\ ~(abandon' # -1 /\ iCount' >= abandon')

\* the all-zero store with (0, 8, 100) at 100, started at 100, no limit set
SelfJump100 ==
    /\ image0 = Image(100 :> makeIns(0, 8, 100))
    /\ opKeys = 100
    /\ abandon = -1

\* C6: an executed instruction at address s that leaves the current SCR
\* equal to s, the limit not reached, ends the session with exit code 0 and
\* the stop file holding s; the session of (0, 8, 100) at 100 started at 100
\* exits with code 0, stop file 100 and an instruction count of at least 1.
C6_DynamicStop ==
    /\ [][JumpedToSelf
          => /\ pc' = "tidy"
             /\ reason' = EXIT_DYNSTOP
             /\ stopFile' = [exists |-> TRUE, value |-> lastSCR']]_vars
    /\ []((pc \in {"tidy", "writing"} /\ reason = EXIT_DYNSTOP)
             => stopFile = [exists |-> TRUE, value |-> lastSCR])
    /\ []((pc = "exited" /\ reason = EXIT_DYNSTOP)
             => /\ exitCode = EXIT_DYNSTOP
                /\ stopFile = [exists |-> TRUE, value |-> lastSCR])
    /\ []((SelfJump100 /\ pc \notin {"start", "run"})
             => /\ reason = EXIT_DYNSTOP
                /\ stopFile = [exists |-> TRUE, value |-> 100]
                /\ iCount >= 1)
    /\ []((SelfJump100 /\ pc = "exited") => exitCode = EXIT_DYNSTOP)

\* the session of (0, 8, 100) at 100 has exited by its dynamic stop
C6_SelfJumpStopped ==
    /\ SelfJump100
    /\ pc = "exited"
    /\ exitCode = EXIT_DYNSTOP
    /\ stopFile = [exists |-> TRUE, value |-> 100]
    /\ iCount = 1

\* C7: after every executed instruction A, Q and every store cell hold a
\* value in 0..2^18-1.
C7_EighteenBits ==
    (pc # "start" /\ iCount > 0)
        => /\ Word18(aReg)
           /\ Word18(qReg)
           /\ \A x \in DOMAIN store : Word18(store[x])

\* C8: an instruction of function 0, 1, 2, 3, 4, 5, 6, 10, 11, 12 or 13
\* whose address m is 16384 or more ends the session with exit code 1 and
\* accesses nothing outside the store.
C8_AddressChecked ==
    [][(/\ Executes
        /\ LastSCR >= 0
        /\ LastSCR < STORE_SIZE
        /\ \E ins \in Fetched :
              /\ FnOf(ins) \in {0, 1, 2, 3, 4, 5, 6, 10, 11, 12, 13}
              /\ MOf(ins) >= STORE_SIZE)
       => /\ pc' = "tidy"
          /\ reason' = EXIT_FAILURE
          /\ oob' = oob]_vars

\* C9: at every instruction boundary the current SCR holds an address in
\* 0..16383, or it holds 16384 or more and the step is fatal: nothing is
\* fetched or decoded and the session is to exit with code 1.
C9_SCRInStore ==
    [][Executes
       => \/ LastSCR >= 0 /\ LastSCR < STORE_SIZE
          \/ /\ LastSCR >= STORE_SIZE
             /\ pc' = "tidy"
             /\ reason' = EXIT_FAILURE
             /\ UNCHANGED <<instruction, fCount, oob>>]_vars

\* the fetch of the current instruction did not complete
FetchFailed == lastSCR >= STORE_SIZE \/ (pc = "crashed" /\ lastSCR < 0)

\* C10 as stated: at every point after the start, every end included, the
\* sixteen function-code counters sum to the instruction counter.
C10_HistogramSums == pc # "start" => SumF = iCount

\* C10: the sixteen function-code counters sum to the instruction counter
\* after every executed instruction and at every end of a session, except
\* an end at the fetch, where the instruction counter is one more.
C10_HistogramSumsButAtFetch ==
    /\ fCount[16] = 0
    /\ SumF = IF FetchFailed THEN iCount - 1 ELSE iCount

\* a session ended by the fatal error at fetch after executing instructions
C10_FatalAtFetch ==
    /\ pc = "exited"
    /\ exitCode = EXIT_FAILURE
    /\ lastSCR >= STORE_SIZE
    /\ SumF > 0
    /\ iCount = SumF + 1

(***************************************************************************)
(* Properties of multiply, divide and shift                                *)
(***************************************************************************)
\* the value of an 18-bit word as a two's-complement number
Signed18(v) == IF v >= 131072 THEN v - 262144 ELSE v

\* three primes whose product exceeds 2^36: two numbers of magnitude up to
\* 2^35 are equal when they are congruent modulo each
Moduli == {32749, 32719, 32717}

\* hi * 2^17 + lo = x * y
ProductIs(hi, lo, x, y) ==
    \A pr \in Moduli :
        ((hi % pr) * (131072 % pr) + lo) % pr = ((x % pr) * (y % pr)) % pr

\* ar2 and qr2 are the A and Q multiply is to leave for the signed operands
\* al and sl: with p = al * sl, Q = ((p << 1) AND 2^18-1) with bit 0 set
\* when al < 0, and A = (p >> 17) AND 2^18-1
MulAgrees(al, sl, ar2, qr2) ==
    /\ Word18(ar2)
    /\ Word18(qr2)
    /\ qr2 % 2 = (IF al < 0 THEN 1 ELSE 0)
    /\ ProductIs(IF ar2 <= 131072 THEN ar2 ELSE ar2 - 262144, qr2 \div 2,
                 al, sl)

\* the step obeys function k to its end on an address inside the store
Obeys(k) ==
    /\ Executes
    /\ f' = k
    /\ m' < STORE_SIZE
    /\ pc' \in {"run", "tidy"}

\* C11: multiply of 18-bit A and store[m] leaves Q = ((p << 1) AND 2^18-1)
\* with bit 0 set when A was negative and A = (p >> 17) AND 2^18-1, p the
\* signed product; A = 2 and store[500] = 3 give A = 0 and Q = 12.
C11_Multiply ==
    /\ [][(Obeys(12) /\ Word18(aReg) /\ Word18(RdInc(m')))
          => MulAgrees(Signed18(aReg), Signed18(RdInc(m')), aReg', qReg')]_vars
    /\ [][(Obeys(12) /\ aReg = 2 /\ m' = 500 /\ RdInc(m') = 3)
          => (aReg' = 0 /\ qReg' = 12)]_vars

\* a multiply of two negative words has been obeyed
C11_NegativeTimesNegative ==
    /\ pc = "run"
    /\ iCount = 3
    /\ f = 12
    /\ Rd(store, 502) = 174762
    /\ Rd(store, 500) = 131072
    /\ qReg % 2 = 1
    /\ aReg > 0

\* A = 0o777777, store[500] = 1 and function 12 with m = 500
MinusOneTimesOne == Obeys(12) /\ aReg = 262143 /\ m' = 500 /\ RdInc(m') = 1

\* C12 as stated: multiply with A = 0o777777 and store[500] = 1 leaves
\* A = 0o777777 and Q = 0o000003.
C12_NegativeMultiplyQ3 ==
    [][MinusOneTimesOne => (aReg' = 262143 /\ qReg' = 3)]_vars

\* C12: multiply with A = 0o777777 and store[500] = 1 leaves A = 0o777777
\* and Q = 0o777777: the product -1 shifted left once is 0o777776 in 18
\* bits, and bit 0 is set because A was negative.
C12_NegativeMultiply ==
    [][MinusOneTimesOne => (aReg' = 262143 /\ qReg' = 262143)]_vars

\* the multiply of -1 by 1 has been obeyed
C12_MinusOneTimesOneDone ==
    /\ pc = "run"
    /\ iCount = 3
    /\ f = 12
    /\ Rd(store, 502) = 262143
    /\ Rd(store, 500) = 1
    /\ aReg = 262143
    /\ qReg = 262143

\* ((N / d) >> 1) AND 2^18-1 for N = nh * 2^18 + nl, 0 <= nl < 2^18, and
\* d > 0, the division truncating: long division in base 2^9
HalfQuotient(nh, nl, d) ==
    LET qa == nh \div d
        x1 == (nh % d) * 512 + (nl \div 512)
        x2 == (x1 % d) * 512 + (nl % 512)
        \* the low 18 bits of the quotient rounded down, and the remainder
        low == (x1 \div d) * 512 + (x2 \div d)
        up == IF nh < 0 /\ x2 % d # 0 THEN 1 ELSE 0
    IN  ((qa % 2) * 131072 + ((low + up) \div 2)) % 262144

\* quot = ((aq / ml, truncated) >> 1) AND 2^18-1 for aq = al * 2^18 + ql
\* and ml # 0: for ml < 0 both are negated first
QuotOf(al, ql, ml) ==
    IF ml > 0 THEN HalfQuotient(al, ql, ml)
    ELSE IF ql = 0 THEN HalfQuotient(-al, 0, -ml)
    ELSE HalfQuotient(-al - 1, 262144 - ql, -ml)

\* C13: divide of 18-bit A, Q by a non-zero 18-bit store[m] leaves
\* A = quot OR 1 and Q = quot AND 0o777776 with quot = ((aq / store[m],
\* truncated) >> 1) AND 2^18-1: bit 0 of A is 1, bit 0 of Q is 0, and A and
\* Q agree on bits 1..17.
C13_Divide ==
    [][(/\ Obeys(13)
        /\ Word18(aReg) /\ Word18(qReg) /\ Word18(RdInc(m'))
        /\ RdInc(m') # 0)
       => LET quot == QuotOf(Signed18(aReg), qReg, Signed18(RdInc(m')))
          IN  /\ aReg' = 2 * (quot \div 2) + 1
              /\ qReg' = 2 * (quot \div 2)
              /\ aReg' % 2 = 1
              /\ qReg' % 2 = 0
              /\ aReg' \div 2 = qReg' \div 2]_vars

\* a negative register pair has been divided by a negative word
C13_NegativeByNegative ==
    /\ pc = "run"
    /\ iCount = 3
    /\ f = 13
    /\ Rd(store, 502) = 174762
    /\ Rd(store, 501) = 131072
    /\ Rd(store, 500) = 262143
    /\ aReg > 1

\* bit i of the signed concatenation of the 18-bit words ar and qr: Q is
\* bits 0..17, A bits 18..35, the sign of A every bit above
BitAQ(ar, qr, i) ==
    IF i < 18 THEN (qr \div (2 ^ i)) % 2
    ELSE IF i < 36 THEN (ar \div (2 ^ (i - 18))) % 2
    ELSE ar \div 131072

\* bit i of the concatenation shifted p places, left or right
ShiftedBit(ar, qr, p, left, i) ==
    IF left THEN (IF i < p THEN 0 ELSE BitAQ(ar, qr, i - p))
    ELSE BitAQ(ar, qr, i + p)

RECURSIVE ShiftedWord(_, _, _, _, _, _)
\* bits base..base+17 of the shifted concatenation, from bit base+i up
ShiftedWord(ar, qr, p, left, base, i) ==
    IF i > 17 THEN 0
    ELSE ShiftedBit(ar, qr, p, left, base + i) * (2 ^ i)
         + ShiftedWord(ar, qr, p, left, base, i + 1)

\* the smaller of x and 36
Min36(x) == IF x < 36 THEN x ELSE 36

\* the places a shift step asks for, to the left or to the right
Asked(left) == IF left THEN m' % 8192 ELSE 8192 - (m' % 8192)

\* the step obeys a shift of 18-bit A and Q in the direction left
Shifts18(left) ==
    /\ Obeys(14)
    /\ Word18(aReg)
    /\ Word18(qReg)
    /\ IF left THEN m' % 8192 <= 2047 ELSE m' % 8192 >= 6144

\* C14: a shift with places = m AND 0x1FFF leaves in Q the low 18 bits and
\* in A the next 18 bits of aq shifted left min(places, 36) when places <=
\* 2047, or right arithmetically min(8192 - places, 36) when places >= 6144;
\* 36 or more places left give A = Q = 0 and right give A and Q filled with
\* the sign of A.
C14_Shift ==
    [][\A left \in BOOLEAN :
          Shifts18(left)
          => /\ qReg' = ShiftedWord(aReg, qReg, Min36(Asked(left)), left, 0, 0)
             /\ aReg' = ShiftedWord(aReg, qReg, Min36(Asked(left)), left, 18, 0)
             /\ (left /\ Asked(left) >= 36) => (aReg' = 0 /\ qReg' = 0)
             /\ (~left /\ Asked(left) >= 36)
                   => /\ aReg' = (IF aReg >= 131072 THEN 262143 ELSE 0)
                      /\ qReg' = aReg']_vars

\* a negative pair has been shifted right 17 places
C14_ShiftedRight17 ==
    /\ pc = "run"
    /\ iCount = 3
    /\ f = 14
    /\ m = 8175
    /\ Rd(store, 502) = 174762
    /\ Rd(store, 501) = 1
    /\ aReg = 262143
    /\ qReg = 87380

\* the session has just obeyed a shift of k places left at 100 and then a
\* shift of k places right at 101, on the A and Q loaded from 502 and 501
ShiftedBack(k) ==
    /\ pc = "run"
    /\ iCount = 4
    /\ lastSCR = 101
    /\ Rd(store, 98) = makeIns(0, 0, 501)
    /\ Rd(store, 99) = makeIns(0, 4, 502)
    /\ Rd(store, 100) = makeIns(0, 14, k)
    /\ Rd(store, 101) = makeIns(0, 14, 8192 - k)

\* the low n bits of v taken as a signed number, as an 18-bit word
LowSigned(v, n) ==
    IF v % (2 ^ n) >= 2 ^ (n - 1)
    THEN (v % (2 ^ n)) + 262144 - 2 ^ n
    ELSE v % (2 ^ n)

\* C15 as stated: a left shift of k places followed by a right shift of k
\* places, 1 <= k <= 17, leaves A equal to its original value.
C15_LeftRightIdentity ==
    \A k \in 1..17 : ShiftedBack(k) => aReg = Rd(store, 502)

\* C15: a left shift of k places followed by a right shift of k places,
\* 1 <= k <= 17, leaves in A the low 18 - k bits of its original value
\* sign-extended, which is the original value exactly when its top k + 1
\* bits are equal.
C15_LeftRightLowBits ==
    \A k \in 1..17 :
       ShiftedBack(k)
       => /\ aReg = LowSigned(Rd(store, 502), 18 - k)
          /\ aReg = Rd(store, 502)
                <=> Rd(store, 502) \div (2 ^ (17 - k)) \in {0, 2 ^ (k + 1) - 1}

\* 0200000 has been shifted left one place and back, and is now 0600000
C15_TopBitLost ==
    /\ ShiftedBack(1)
    /\ Rd(store, 502) = 65536
    /\ aReg = 196608

\* the session has just obeyed a multiply by cell 500 at 100 and then a
\* shift of 18 places right at 101, on the A loaded from 502
MultipliedShifted ==
    /\ pc = "run"
    /\ iCount = 4
    /\ lastSCR = 101
    /\ Rd(store, 98) = makeIns(0, 0, 501)
    /\ Rd(store, 99) = makeIns(0, 4, 502)
    /\ Rd(store, 100) = makeIns(0, 12, 500)
    /\ Rd(store, 101) = makeIns(0, 14, 8174)

\* the low 17 bits of the product x * y
LowProd(x, y) ==
    LET x17 == x % 131072
        y0  == (y % 131072) % 256
        y1  == (y % 131072) \div 256
    IN  (x17 * y0 + (((x17 % 512) * y1) % 512) * 256) % 131072

\* C16: multiply and then a right shift of 18 places leave the high word of
\* the signed product p = A * store[m] in the pair: Q = (p >> 17) AND
\* 2^18-1 and A is all copies of the sign bit of that word.
C16_HighWord ==
    MultipliedShifted
    => /\ ProductIs(IF qReg <= 131072 THEN qReg ELSE qReg - 262144,
                    LowProd(Signed18(Rd(store, 502)), Signed18(Rd(store, 500))),
                    Signed18(Rd(store, 502)), Signed18(Rd(store, 500)))
       /\ aReg = (IF qReg >= 131072 THEN 262143 ELSE 0)

\* -87382 times -131072 has been multiplied and shifted: the high word is
\* 87382
C16_HighWordOfNegatives ==
    /\ MultipliedShifted
    /\ Rd(store, 502) = 174762
    /\ Rd(store, 500) = 131072
    /\ qReg = 87382
    /\ aReg = 0

(***************************************************************************)
(* Properties of the initial orders, the levels and the files               *)
(***************************************************************************)
\* the session that enters the initial orders at 8181 over a clear store
\* with the reader tape 1, 2, 3 has been stopped
BootstrapEnded ==
    /\ image0 = NoFile
    /\ opKeys = 8181
    /\ ptrTape = <<1, 2, 3>>
    /\ pc \in {"tidy", "writing", "exited"}

\* C17 as stated: the bootstrap session over the tape 1, 2, 3 ends with exit
\* code 2 on the read that finds the tape exhausted, and cells 1, 2 and 3
\* then contain 1, 2 and 3.
C17_BootstrapLoads123 ==
    BootstrapEnded
    => /\ reason = EXIT_RDRSTOP
       /\ pc = "exited" => exitCode = EXIT_RDRSTOP
       /\ Rd(store, 1) = 1
       /\ Rd(store, 2) = 2
       /\ Rd(store, 3) = 3

\* C17: the bootstrap session over the tape 1, 2, 3 ends with exit code 2
\* on the fourth read, its twelfth instruction, which finds the tape
\* exhausted; cell 1, the B register, then holds 0777775, cells 2 and 3
\* hold 0, and A holds the packed characters 040403.
C17_BootstrapPacksA ==
    BootstrapEnded
    => /\ reason = EXIT_RDRSTOP
       /\ pc = "exited" => exitCode = EXIT_RDRSTOP
       /\ iCount = 12
       /\ ptrFile = 3
       /\ f = 15
       /\ Rd(store, 1) = 262141
       /\ Rd(store, 2) = 0
       /\ Rd(store, 3) = 0
       /\ aReg = 16643

\* the bootstrap session has exited with code 2 and the count in cell 1
C17_BootstrapExited ==
    /\ BootstrapEnded
    /\ pc = "exited"
    /\ exitCode = EXIT_RDRSTOP
    /\ Rd(store, 1) = 262141

\* the step fetches and decodes an instruction at level 4
Level4Step == Executes /\ level = 4 /\ steps' > steps

\* C18: function 15 with m AND 0x1FFF = 7168 at level 1 leaves level 4 with
\* cell 6 as SCR and cell 7 as B register, for good: every later fetch is
\* from the address in cell 6, sequencing and jumps read and write cell 6
\* and never cell 0, and B modification and function 0 use cell 7 and never
\* cell 1.
C18_LevelTerminate ==
    /\ [][Obeys(15) /\ level = 1 /\ m' % 8192 = 7168
          => /\ level' = 4
             /\ scReg' = 6
             /\ bReg' = 7]_vars
    /\ [][level = 4 => (level' = 4 /\ scReg' = 6 /\ bReg' = 7)]_vars
    /\ [][Executes /\ level = 4
          => /\ lastSCR' = Rd(store, 6)
             /\ Rd(store', 0) = Rd(store, 0)
                   \/ (steps' > steps /\ m' = 0 /\ f' \in {3, 5, 10, 11})
             /\ Rd(store', 1) = Rd(store, 1)
                   \/ (steps' > steps /\ m' = 1 /\ f' \in {3, 5, 10, 11})]_vars
    /\ [][Level4Step
          => /\ Obeys(8) => Rd(store', 6) = m'
             /\ (Obeys(0) \/ Obeys(4)) => Rd(store', 6) = lastSCR' + 1
             /\ Obeys(0) => (Rd(store', 7) = qReg' /\ qReg' = RdInc(m'))
             /\ instruction' >= BIT18
                   => m' = (a' + Rd(store, 7)) % 65536]_vars

\* at level 4 the B register has been loaded and has modified a load of A:
\* cell 7 holds 5 and cell 1 still 9, and A was loaded from 405
C18_Level4UsesCell7 ==
    /\ pc = "run"
    /\ level = 4
    /\ lastSCR = 302
    /\ Rd(store, 6) = 303
    /\ Rd(store, 0) = 101
    /\ Rd(store, 7) = 5
    /\ Rd(store, 1) = 9
    /\ m = 405
    /\ aReg = 55

\* C19: at every orderly termination the reader bytes consumed during the
\* session followed by the bytes written to the save file are the reader
\* tape, byte for byte, also when no reader instruction was executed.
C19_ConsumedThenResidual ==
    [][(pc = "writing" /\ pc' = "exited")
       => SubSeq(ptrTape, 1, PtrPos) \o saveFile'.data = ptrTape]_vars

\* C20: the file persist writes, when loaded again, yields the store it was
\* written from in every cell, whatever integers of an accepted image the
\* store holds.
C20_PersistThenLoad ==
    (pc = "exited" /\ storeFile = Written(store, STORE_SIZE))
        => /\ ~readStoreFails(storeFile)
           /\ readStore(clearStore, storeFile) = store

(***************************************************************************)
(* Properties of termination, the counters and the session start           *)
(***************************************************************************)
\* C22: every session ends; with no abandon limit set, a session that finds
\* no dynamic stop ends when about 1.5 days of emulated time have elapsed:
\* none is still executing after two days, 172 800 000 000 microseconds.
C22_EndsInTwoDays ==
    pc = "run"
        => \/ emTime[1] < 172
           \/ emTime[1] = 172 /\ emTime[2] <= 800000000

\* C23: with a user-set abandon limit n the session never executes more
\* than n instructions, is no longer executing once the n-th is done, and a
\* session ended by the limit has code 8 and has written no stop address,
\* also when the n-th instruction jumps to itself.
C23_AbandonBounds ==
    abandonArg # -1
        => /\ iCount <= abandonArg
           /\ pc = "run" => iCount < abandonArg
           /\ (iCount = abandonArg /\ pc # "run" /\ lastSCR < STORE_SIZE
               /\ Rd(store, scReg) = lastSCR)
                 => (reason = EXIT_LIMITSTOP /\ ~stopFile.exists)

\* the word with B-modification bit mm, function code ff and address aa
Encode(mm, ff, aa) == mm * 131072 + ff * 8192 + aa

\* the fields <<m, f, a>> of the initial orders in cells 8181..8191
IIFields ==
    <<  <<0, 0, 8180>>, <<0, 4, 8189>>, <<0, 15, 2048>>, <<0, 9, 8186>>,
        <<0, 8, 8183>>, <<0, 15, 2048>>, <<1, 5, 8180>>, <<0, 10, 1>>,
        <<0, 4, 1>>, <<0, 9, 8182>>, <<0, 8, 8177>>  >>

\* the step is the set-up of a session whose store image is accepted
Starts == pc = "start" /\ pc' = "run"

\* C24: at session start, for every accepted store image, present or not,
\* cells 8180..8191 hold the twelve initial-orders words, cell 0 holds the
\* jump-key address, every other cell holds the integer the image gives it
\* or zero where the image gives none, A = Q = 0 and the level is 1.
C24_SessionStart ==
    [][Starts
       => /\ Rd(store', 8180) = 262144 - 3
          /\ \A i \in 1..11 :
                Rd(store', 8180 + i)
                    = Encode(IIFields[i][1], IIFields[i][2], IIFields[i][3])
          /\ Rd(store', 0) = opKeys
          /\ \A x \in ((DOMAIN store') \cup (DOMAIN storeFile.tok))
                          \ (IICells \cup {0}) :
                Rd(store', x) = IF storeFile.exists /\ x < storeFile.n
                                THEN Rd(storeFile.tok, x) ELSE 0
          /\ aReg' = 0
          /\ qReg' = 0
          /\ level' = 1
          /\ iCount' = 0]_vars

\* a session has started over an image that held other words in cells 8180
\* and 8185 and a word in cell 8192
C24_OrdersReinstalled ==
    /\ pc = "run"
    /\ iCount = 0
    /\ Rd(image0.tok, 8180) = 5
    /\ Rd(image0.tok, 8185) = 7
    /\ Rd(store, 8180) = 262141
    /\ Rd(store, 8185) = 73719
    /\ Rd(store, 8192) = 9
    /\ Rd(store, 0) = 100

C26_TeletypePrintable ==
    \A i \in 1..Len(ttyOut) : ttyOut[i] = 10 \/ ttyOut[i] \in 32..122

\* C27: an 18-bit word decoded into B-modification bit, function code and
\* address field and encoded again is the same word: for the words the
\* arithmetic programs use and for every instruction a session decodes.
C27_DecodeEncode ==
    /\ [][\A w \in Words :
             Encode(IF BMod(w) THEN 1 ELSE 0, FnOf(w), Low(w, ADDR_MASK)) = w]_vars
    /\ [][(Executes /\ steps' > steps /\ Word18(instruction'))
          => Encode(IF instruction' >= 131072 THEN 1 ELSE 0, f', a' % 8192)
                 = instruction']_vars

\* a B-modified instruction, /4 400, has been decoded
C27_DecodedModified ==
    /\ pc = "run"
    /\ instruction = 131072 + 4 * 8192 + 400
    /\ f = 4
    /\ a = 400

\* the microseconds from emTime t to emTime u, less than 10^9 apart
TimeDiff(t, u) == (u[1] - t[1]) * 1000000000 + (u[2] - t[2])

\* C28: no step decreases a function-code counter, the instruction counter
\* or the elapsed time; each executed instruction adds one to the
\* instruction counter, one to the counter of its function code and to no
\* other, and a non-negative time, which for a shift is 24 + 7 * places
\* microseconds beside the 6 of a B modification.
C28_Counters ==
    [][/\ iCount' >= iCount
       /\ \A i \in 0..16 : fCount'[i] >= fCount[i]
       /\ TimeDiff(emTime, emTime') >= 0
       /\ (Executes /\ steps' > steps)
             => /\ iCount' = iCount + 1
                /\ \A i \in 0..16 :
                      fCount'[i] = fCount[i] + (IF i = f' THEN 1 ELSE 0)
       /\ (Executes /\ steps' > steps /\ f' = 14 /\ pc' = "run")
             => TimeDiff(emTime, emTime')
                    = (IF instruction' >= 131072 THEN 6 ELSE 0) + 24
                      + 7 * (IF m' % 8192 <= 2047 THEN m' % 8192
                             ELSE 8192 - (m' % 8192))]_vars

\* a shift of 37 places right has been timed: 24 + 7 * 37 microseconds after
\* the 53 of the two loads
C28_ShiftTimed ==
    /\ pc = "run"
    /\ iCount = 3
    /\ f = 14
    /\ m = 8155
    /\ fCount[14] = 1
    /\ emTime = <<0, 53 + 24 + 7 * 37>>

(***************************************************************************)
(* Properties of interrupted sessions                                      *)
(***************************************************************************)
\* the reader bytes no instruction has consumed
Residual == SubSeq(ptrTape, PtrPos + 1, Len(ptrTape))

\* C21: an interrupt arriving in the instruction loop sends the session into
\* the teardown with the failure code and the teletype line ended; the
\* teardown the handler runs leaves the whole store in the image file and
\* the unread reader bytes in the save file, and the session exits with 1.
C21_InterruptTeardown ==
    [][/\ (pc = "run" /\ inHandler')
            => /\ pc' = "tidy"
               /\ reason' = EXIT_FAILURE
               /\ lastttych' \in {-1, 10}
       /\ (inHandler /\ pc = "writing" /\ pc' \in {"closed", "exited"})
            => /\ storeFile' = Written(store, STORE_SIZE)
               /\ saveFile'.exists
               /\ saveFile'.data = Residual
       /\ (inHandler /\ pc # "exited" /\ pc' = "exited")
            => exitCode' = EXIT_FAILURE]_vars

\* the same with the save file left out
C21_InterruptExits ==
    [][/\ (pc = "run" /\ inHandler')
            => /\ pc' = "tidy"
               /\ reason' = EXIT_FAILURE
               /\ lastttych' \in {-1, 10}
       /\ (inHandler /\ pc = "writing" /\ pc' \in {"closed", "exited"})
            => /\ storeFile' = Written(store, STORE_SIZE)
               /\ saveFile'.exists
       /\ (inHandler /\ pc # "exited" /\ pc' = "exited")
            => exitCode' = EXIT_FAILURE]_vars

\* the store once the whole of instruction ins has been obeyed: the SCR is
\* incremented and the function has written its cell
WholeStore(ins) ==
    LET k == FnOf(ins)
        mm == MOf(ins)
    IN  CASE k = 0 -> Wr(StoreInc, bReg, RdInc(mm))
          [] k = 3 -> Wr(StoreInc, mm, Shr(qReg, 1))
          [] k = 5 -> IF level = 1 /\ mm >= 8180 /\ mm <= 8191
                      THEN StoreInc ELSE Wr(StoreInc, mm, aReg)
          [] k = 7 -> IF aReg = 0 THEN Wr(StoreInc, scReg, mm) ELSE StoreInc
          [] k = 8 -> Wr(StoreInc, scReg, mm)
          [] k = 9 -> IF aReg >= BIT18 THEN Wr(StoreInc, scReg, mm)
                      ELSE StoreInc
          [] k = 10 -> Wr(StoreInc, mm, Low(RdInc(mm) + 1, MASK18))
          [] k = 11 -> Wr(StoreInc, mm, Low(RdInc(scReg), ADDR_MASK))
          [] OTHER -> StoreInc

\* C29: an interrupt arriving in the instruction loop hands the teardown a
\* store of an instruction boundary: the store as it was before the
\* interrupted instruction, or as it is after the whole of it; and the
\* teardown persists that store.
C29_InstructionAtomic ==
    [][/\ (pc = "run" /\ inHandler')
            => \/ store' = store
               \/ \E ins \in Fetched : store' = WholeStore(ins)
       /\ (inHandler /\ pc \in {"tidy", "writing"}) => store' = store
       /\ (inHandler /\ pc = "writing" /\ pc' \in {"closed", "exited"})
            => storeFile' = Written(store, STORE_SIZE)]_vars

\* C30: no peripheral stream is closed twice or used after its fclose, and
\* a session that has exited through the teardown has closed each stream
\* it opened exactly once, also when the interrupt arrives during the
\* teardown.
C30_ClosedOnce ==
    /\ closes.ptr <= 1 /\ closes.ttyi <= 1 /\ closes.pun <= 1
    /\ ~stale
    /\ (pc = "exited" /\ reason # -1)
        => /\ closes.ptr = (IF ptrFile # -1 THEN 1 ELSE 0)
           /\ closes.ttyi = (IF ttyiFile # -1 THEN 1 ELSE 0)
           /\ closes.pun = (IF punFile.open THEN 1 ELSE 0)

OtherCellsKept ==
    \A i \in (DOMAIN store \cup DOMAIN store') \ {scReg} :
        Rd(store', i) = Rd(store, i)

\* the step decodes an instruction of one of the functions in fs
Does(fs) == Executes /\ steps' > steps /\ f' \in fs

\* C32 as stated: functions 1, 2, 4 and 6 leave Q, the current B register
\* and every store cell other than the current SCR as they were.
C32_OnlyA ==
    [][Does({1, 2, 4, 6})
       => /\ qReg' = qReg
          /\ bReg' = bReg
          /\ OtherCellsKept]_vars

\* C32 amended: functions 1, 2, 4 and 6 leave the current B register and
\* every store cell other than the current SCR as they were; functions 1, 4
\* and 6 leave Q as it was, and function 2, once its address has passed the
\* check, leaves in Q the operand store[m].
C32_OnlyAAndQ ==
    [][/\ Does({1, 2, 4, 6}) => (bReg' = bReg /\ OtherCellsKept)
       /\ Does({1, 4, 6}) => qReg' = qReg
       /\ (Does({2}) /\ lastSCR' < STORE_SIZE /\ m' < STORE_SIZE)
            => qReg' = Rd(store', m')
       /\ (Does({2}) /\ ~(lastSCR' < STORE_SIZE /\ m' < STORE_SIZE))
            => qReg' = qReg]_vars

\* 2 200 after 4 200: Q has been loaded with the operand 5 and A is 5 - 5
C32_NegateAddLoadedQ ==
    /\ lastSCR = 101
    /\ instruction = 2 * 8192 + 200
    /\ Rd(store, 100) = 4 * 8192 + 200
    /\ qReg = 5
    /\ aReg = 0
    /\ Rd(store, 1) = 16300

\* the step completes an instruction of one of the functions in fs
Completes(fs) == Does(fs) /\ lastSCR' \in 0..(STORE_SIZE - 1) /\ m' < STORE_SIZE

\* C33: the SCR and the B register are their store cells. Every instruction
\* is fetched from the value of the current SCR cell; function 5 addressed to
\* that cell leaves A in it and function 10 addressed to the current B cell
\* increments the value B modification adds; function 4 addressed to these
\* cells loads the already incremented SCR and the current B.
C33_SameBits ==
    [][/\ Does(0..15) => lastSCR' = Rd(store, scReg)
       /\ (Completes({5}) /\ m' = scReg) => Rd(store', scReg) = aReg
       /\ (Completes({10}) /\ m' = bReg)
            => Rd(store', bReg) = (Rd(store, bReg) + 1) % 262144
       /\ (Does(0..15) /\ instruction' >= 131072 /\ Word18(instruction'))
            => m' = (a' + Rd(store, bReg)) % 65536
       /\ (Completes({4}) /\ m' = scReg) => aReg' = lastSCR' + 1
       /\ (Completes({4}) /\ m' = bReg) => aReg' = Rd(store, bReg)]_vars

\* the program has stored 103 + 4 in cell 0 and stopped on the jump at 107
C33_FetchedFromWritten ==
    /\ image0 = Image(SameBitsProgram)
    /\ pc = "exited"
    /\ exitCode = EXIT_DYNSTOP
    /\ lastSCR = 107
    /\ aReg = 107
    /\ Rd(store, 1) = 4
    /\ iCount = 6

\* C34: level 4, once entered, is never left: the SCR stays cell 6 and the B
\* register cell 7; at level 4 function 5 with m in 8180..8191 writes A
\* into cell m, at level 1 it leaves the cell as it was.
C34_Level4Writes ==
    [][/\ level = 4 => (level' = 4 /\ scReg' = SCRLEVEL4 /\ bReg' = BREGLEVEL4)
       /\ (Completes({5}) /\ level = 4 /\ m' \in IICells)
            => Rd(store', m') = aReg
       /\ (Completes({5}) /\ level = 1 /\ m' \in IICells)
            => Rd(store', m') = Rd(store, m')]_vars

\* at level 4 the program has put 5 in cell 8185 and executed a second
\* level terminate
C34_Level4Stored ==
    /\ image0 = Image(Level4Store)
    /\ pc = "exited"
    /\ level = 4
    /\ Rd(store, 8185) = 5
    /\ lastSCR = 302
    /\ fCount[15] = 2

UnsupportedCode(ff, mm) ==
    \/ ff = 14 /\ mm % 8192 >= 2048 /\ mm % 8192 <= 6143
    \/ ff = 15 /\ mm % 8192 \notin {2048, 2052, 4864, 6144, 6148, 7168}

C37_RTraceWithinLimits ==
    (diagLimit >= 1 /\ pc = "run")
        => /\ iCount < diagLimit + 1000
           /\ abandonArg # -1 => iCount < abandonArg

\* C38: no instruction has an undefined outcome: the process is never ended
\* by a fault, and a session that has exited has one of the codes 0, 1, 2,
\* 4, 8 and 16.
C38_DefinedOutcome ==
    /\ pc # "crashed"
    /\ pc = "exited"
        => exitCode \in {EXIT_DYNSTOP, EXIT_FAILURE, EXIT_RDRSTOP, EXIT_TTYSTOP,
                         EXIT_LIMITSTOP, EXIT_PUNSTOP}

\* C39: an instruction after which the session stops dynamically is a jump,
\* function 7, 8 or 9, to its own address.
C39_StopOnlyOnSelfJump ==
    [][(Executes /\ pc' = "tidy" /\ reason' = EXIT_DYNSTOP)
       => /\ f' \in {7, 8, 9}
          /\ m' = lastSCR']_vars

\* the pixels of the square of side 2 * PEN_SIZE + 1 centred on <<x, y>>
\* that lie on the paper
PenSquare(x, y) ==
    {p \in ((x - PEN_SIZE)..(x + PEN_SIZE)) \X ((y - PEN_SIZE)..(y + PEN_SIZE)) :
        p[1] \in 0..(PAPER_WIDTH - 1) /\ p[2] \in 0..(PAPER_HEIGHT - 1)}

\* C40: every plotter command leaves the pen's X inside the paper,
\* 0 <= X < width; with the pen down it blackens exactly the pixels of the
\* square around the head that lie on the paper, with the pen up none; no
\* pixel outside the paper is ever black.
C40_PlotterInPaper ==
    [][(Completes({15}) /\ m' % 8192 = 4864)
       => /\ plotterPenX' >= 0
          /\ plotterPenX' < PAPER_WIDTH
          /\ plotterPaper' =
                IF plotterPenDown'
                THEN plotterPaper \cup PenSquare(plotterPenX', plotterPenY')
                ELSE plotterPaper
          /\ \A p \in plotterPaper' :
                p[1] \in 0..(PAPER_WIDTH - 1) /\ p[2] \in 0..(PAPER_HEIGHT - 1)]_vars
====
